---- MODULE Spec2Model ----
(***************************************************************************)
(* Model of the Outstack API (src/api/index.py): the retrying fetch        *)
(* client fetch_with_retry and the campaigns dashboard built on it.        *)
(*                                                                         *)
(* Several specifications share the module:                                *)
(*   SpecFetch  one fetch_with_retry call, request by request, sleep by    *)
(*              sleep;                                                     *)
(*   SpecDash   one GET /api/campaigns/dashboard request: the listing      *)
(*              page-walk, the batches of process_campaign tasks and the   *)
(*              four activity feeds of each campaign.  A fetch_with_retry  *)
(*              call is there one unit in progress whose result is that    *)
(*              of the retry loop (FetchRun) on some sequence of upstream  *)
(*              outcomes.                                                  *)
(*   SpecRow    the figures of one campaign row, derived from the leads    *)
(*              and the activity feeds the upstream gave;                  *)
(*   SpecMail   one GET /api/mailboxes request, upstream call by upstream  *)
(*              call, up to the sorted list of mailboxes it answers;       *)
(*   SpecRoutes requests to the five routes of a server with or without an *)
(*              API key: the entry of the two GET routes and the three     *)
(*              POST routes whole;                                         *)
(*   SpecWalk   one page-walk (the dashboard listing, a listing of the     *)
(*              mailboxes route, an activity feed) against an upstream     *)
(*              that answers each page as it likes; LiveWalk adds that a   *)
(*              fetch in progress ends.                                    *)
(* Times are whole seconds.                                                *)
(***************************************************************************)
EXTENDS Integers, Sequences, FiniteSets, TLC

VARIABLES
    \* ---- one fetch_with_retry call (SpecFetch) ----
    fpc,            \* "idle" | "request" (client.get awaited) | "sleep" | "done"
    max_retries,    \* the call's max_retries argument
    attempt,        \* the loop variable of `for attempt in range(max_retries)`
    requests,       \* number of client.get calls issued so far
    log,            \* one entry per answered request: outcome, what followed
    fresult,        \* what the call gave its caller
    \* ---- one dashboard request (SpecDash) ----
    dpc,            \* "idle" | "listing" | "batch" | "done" | "failed"
    upstream,       \* the upstream snapshot this request runs against
    page,           \* listing page index
    all_campaigns,  \* campaigns accumulated by the page-walk
    listing_end,    \* how the page-walk ended
    batch_start,    \* first index (0-based) of the batch being processed
    task,           \* per listed position: the process_campaign task
    feed,           \* per listed position and feed: the fetch_activity_pages task
    dashboard_data, \* rows emitted so far
    \* ---- one campaign's row, from its data to its figures (SpecRow) ----
    rpc,            \* "idle" | "leads" | "feeds" | "done"
    rin,            \* what the upstream gave: leads, sent, opens, replies
    rrow,           \* the row under construction
    \* ---- one mailboxes request (SpecMail) ----
    mpc,            \* where get_mailboxes stands, "idle" to "done" | "failed"
    msnap,          \* the upstream snapshot: mailboxes and campaigns
    mloop,          \* page: listing page; i: loop position; has_active_leads
    all_mailboxes,  \* the mailboxes of the user
    all_running_campaigns,
    every_campaign, \* all_campaigns of get_mailboxes, the full listing
    emails_in_use,
    email_to_campaigns,
    mailbox_id_to_emails,
    mailbox_id_to_campaign_email,
    mailbox_list,   \* the response
    detail_calls,   \* the detail calls made, in order: campaign id, answered 200
    \* ---- the configuration, and one request to a POST route (SpecRoutes) ----
    api_key,        \* LEMLIST_API_KEY, "" when the environment has none
    post,           \* the request: where it stands, its route, id and reply
    \* ---- one page-walk against any upstream (SpecWalk) ----
    walk            \* the loop: its kind, page, records kept, pages asked

fetchVars == <<fpc, max_retries, attempt, requests, log, fresult>>
dashVars == <<dpc, upstream, page, all_campaigns, listing_end, batch_start,
              task, feed, dashboard_data>>
rowVars == <<rpc, rin, rrow>>
mailVars == <<mpc, msnap, mloop, all_mailboxes, all_running_campaigns,
              every_campaign, emails_in_use, email_to_campaigns,
              mailbox_id_to_emails, mailbox_id_to_campaign_email, mailbox_list,
              detail_calls>>
postVars == <<api_key, post>>
walkVars == <<walk>>
vars == <<fetchVars, dashVars, rowVars, mailVars, postVars, walkVars>>

(***************************************************************************)
(* Bounds and program constants                                            *)
(***************************************************************************)
DefaultMaxRetries == 3
FeedMaxRetries == 2
RetryDelay == 1
MaxHeaderSecs == 3

\* 2 ** attempt
RECURSIVE Pow2(_)
Pow2(n) == IF n <= 0 THEN 1 ELSE 2 * Pow2(n - 1)

\* LEMLIST_API_KEY = os.getenv("LEMLIST_API_KEY", ""): a key, or "".
ApiKeys == {"", "k3y"}

Refuses_Never(key) == FALSE

\* `if not LEMLIST_API_KEY`, the first statement of every route.
Refuses(key) == key = ""

(***************************************************************************)
(* Upstream outcomes of one request                                        *)
(***************************************************************************)
\* The Retry-After header of a response: absent, delay-seconds, or an
\* HTTP-date lying `secs` seconds ahead.
NoHeader == [form |-> "absent", secs |-> 0]
RetryAfterHeaders ==
    {NoHeader} \cup [form : {"int"}, secs : {0, 2}]
               \cup [form : {"date"}, secs : {MaxHeaderSecs}]

StatusCodes == {200, 404, 429, 500}

Outcomes ==
    [kind : {"response"}, status : StatusCodes \ {429}, ra : {NoHeader}]
    \cup [kind : {"response"}, status : {429}, ra : RetryAfterHeaders]
    \cup [kind : {"timeout", "error"}, status : {0}, ra : {NoHeader}]

Is429(o) == o.kind = "response" /\ o.status = 429
Is5xx(o) == o.kind = "response" /\ o.status >= 500
IsClientError(o) ==
    o.kind = "response" /\ o.status >= 400 /\ o.status < 500 /\ o.status # 429
IsTransient(o) == Is5xx(o) \/ o.kind \in {"timeout", "error"}

\* int(response.headers.get("Retry-After", retry_delay * (2 ** attempt))):
\* the default is a number and converts; a delay-seconds string parses; an
\* HTTP-date string makes int() raise ValueError.
RetryAfterValue(o, att) ==
    CASE o.ra.form = "absent" -> [ok |-> TRUE, val |-> RetryDelay * Pow2(att)]
      [] o.ra.form = "int"    -> [ok |-> TRUE, val |-> o.ra.secs]
      [] OTHER                -> [ok |-> FALSE, val |-> 0]

Backoff(att) == RetryDelay * Pow2(att)

(***************************************************************************)
(* What one loop iteration does with the outcome of its request            *)
(***************************************************************************)
NoResult == [kind |-> "pending", status |-> 0, err |-> ""]
ReturnsNone == [kind |-> "none", status |-> 0, err |-> ""]
Returns(o) == [kind |-> "response", status |-> o.status, err |-> ""]
Raises(e, s) == [kind |-> "raise", status |-> s, err |-> e]

Sleep(d) == [act |-> "sleep", dur |-> d, res |-> NoResult]
Finish(r) == [act |-> "finish", dur |-> 0, res |-> r]

\* The except branches: back off and go on while attempts remain, else re-raise.
RetryOrRaise(att, maxr, e, s) ==
    IF att < maxr - 1 THEN Sleep(Backoff(att)) ELSE Finish(Raises(e, s))

On429(o, att, maxr) ==
    LET ra == RetryAfterValue(o, att)
    IN  IF ra.ok THEN Sleep(ra.val)
        ELSE RetryOrRaise(att, maxr, "ValueError", 0)

On5xx_ReturnsLast(o, att, maxr) ==
    IF att < maxr - 1 THEN Sleep(Backoff(att))
    ELSE Finish(Returns(o))

On5xx(o, att, maxr) ==
    IF att < maxr - 1 THEN Sleep(Backoff(att))
    ELSE Finish(Raises("HTTPStatusError", o.status))

OnOtherStatus_Retries4xx(o, att, maxr) ==
    IF o.status >= 400 THEN RetryOrRaise(att, maxr, "HTTPStatusError", o.status)
    ELSE Finish(Returns(o))

OnOtherStatus(o, att, maxr) == Finish(Returns(o))

OnOutcome(o, att, maxr) ==
    CASE o.kind = "timeout" -> RetryOrRaise(att, maxr, "TimeoutException", 0)
      [] o.kind = "error"   -> RetryOrRaise(att, maxr, "TransportError", 0)
      [] Is429(o)           -> On429(o, att, maxr)
      [] Is5xx(o)           -> On5xx(o, att, maxr)
      [] OTHER              -> OnOtherStatus(o, att, maxr)

NextAttempt_429Free(o, att) == IF Is429(o) THEN att ELSE att + 1

\* The advance of `for attempt in range(max_retries)`.
NextAttempt(o, att) == att + 1

(***************************************************************************)
(* SpecFetch: one call, step by step                                       *)
(***************************************************************************)
FetchInit ==
    /\ fpc = "idle"
    /\ max_retries = 0
    /\ attempt = 0
    /\ requests = 0
    /\ log = <<>>
    /\ fresult = NoResult

\* The caller awaits fetch_with_retry(...): the first request goes out.
FetchCall ==
    /\ fpc = "idle"
    /\ \E m \in {FeedMaxRetries, DefaultMaxRetries} : max_retries' = m
    /\ attempt' = 0
    /\ requests' = 1
    /\ fpc' = "request"
    /\ UNCHANGED <<log, fresult>>
    /\ UNCHANGED <<dashVars, rowVars, mailVars, postVars, walkVars>>

\* client.get completes (or raises) and the loop body runs to its sleep,
\* return or raise.
FetchReceive ==
    /\ fpc = "request"
    /\ \E o \in Outcomes :
         LET h == OnOutcome(o, attempt, max_retries)
         IN  /\ log' = Append(log, [out |-> o, att |-> attempt,
                                    slept |-> h.dur, act |-> h.act])
             /\ fresult' = h.res
             /\ fpc' = IF h.act = "sleep" THEN "sleep" ELSE "done"
    /\ UNCHANGED <<max_retries, attempt, requests>>
    /\ UNCHANGED <<dashVars, rowVars, mailVars, postVars, walkVars>>

\* asyncio.sleep returns: the next iteration issues its request, or the loop
\* is over and the call returns None.
FetchWake ==
    /\ fpc = "sleep"
    /\ LET a == NextAttempt(log[Len(log)].out, attempt)
       IN  /\ attempt' = a
           /\ IF a < max_retries
              THEN /\ requests' = requests + 1
                   /\ fpc' = "request"
                   /\ fresult' = fresult
              ELSE /\ requests' = requests
                   /\ fpc' = "done"
                   /\ fresult' = ReturnsNone
    /\ UNCHANGED <<max_retries, log>>
    /\ UNCHANGED <<dashVars, rowVars, mailVars, postVars, walkVars>>

FetchNext == FetchCall \/ FetchReceive \/ FetchWake

\* The retry loop as a function of the outcomes its requests meet, as the
\* dashboard's callers see it: the result of the call.
RECURSIVE FetchRun(_, _, _)
FetchRun(outs, att, maxr) ==
    IF att >= maxr \/ outs = <<>> THEN ReturnsNone
    ELSE LET h == OnOutcome(Head(outs), att, maxr)
         IN  IF h.act = "finish" THEN h.res
             ELSE FetchRun(Tail(outs), NextAttempt(Head(outs), att), maxr)

(***************************************************************************)
(* The upstream snapshot of a dashboard request                            *)
(***************************************************************************)
\* PageSize stands for the page size 100 of the listing and activity
\* endpoints (limit=100, offset=page*100, len(...) < 100), scaled down.
PageSize == 2
BatchSize == 2
FeedMaxPages == 100

Min(a, b) == IF a < b THEN a ELSE b

EmailsSent == "emailsSent"
EmailsOpened == "emailsOpened"
EmailsReplied == "emailsReplied"
EmailsClicked == "emailsClicked"
FeedTypes == {EmailsSent, EmailsOpened, EmailsReplied, EmailsClicked}

Lead(st, sys, cn, co) ==
    [state |-> st, stateSystem |-> sys, companyName |-> cn, company |-> co]
Activity(l) == [leadId |-> l]
\* A leadId that is a JSON array or object: a value set.add() raises on.
Unhashable == "[]"

\* The running campaigns upstream, in listing order: campaign ids 1, 2, 3.
UpstreamCampaigns == <<1, 2, 3>>
NumCampaigns == Len(UpstreamCampaigns)

\* The leads export of campaign c.
LeadsOf(c) ==
    CASE c = 1 -> << Lead("readyToSend", "inProgress", "Acme", ""),
                     Lead("paused", "paused", "Bolt", ""),
                     Lead("done", "done", "", " Acme ") >>
      [] c = 2 -> << Lead("done", "done", "Cody", ""),
                     Lead("interested", "done", " ", "Dyna") >>
      [] OTHER -> << >>

\* The activities of campaign c of one type, in feed order.
ActivitiesOf(c, type) ==
    CASE c = 1 /\ type = EmailsSent    -> << Activity("L1"), Activity("L1"), Activity("L3") >>
      [] c = 1 /\ type = EmailsOpened  -> << Activity("L1") >>
      [] c = 1 /\ type = EmailsClicked -> << Activity("L3") >>
      [] c = 2 /\ type = EmailsSent    -> << Activity("L4") >>
      [] c = 2 /\ type = EmailsOpened  -> << Activity("L4") >>
      [] c = 2 /\ type = EmailsReplied -> << Activity("") >>
      [] OTHER -> << >>

\* Records [offset, offset + limit) of a collection: what an honest upstream
\* returns for page p.
PageOf(items, p) ==
    SubSeq(items, p * PageSize + 1, Min((p + 1) * PageSize, Len(items)))

\* The campaign record at listing position i; its _id is missing (0) for the
\* campaign the snapshot marks.
CampaignAt(i) ==
    [id |-> IF i = upstream.noid THEN 0 ELSE UpstreamCampaigns[i],
     name |-> UpstreamCampaigns[i]]
Listing == [i \in 1..NumCampaigns |-> CampaignAt(i)]
TotalPages == (NumCampaigns + PageSize - 1) \div PageSize

\* Bodies a 200 answer to a listing page may carry: a bare array, an envelope
\* with or without pagination.totalPages, some other JSON value, or bytes
\* response.json() cannot decode.
ListingBodies(p) ==
    { [shape |-> "list", items |-> PageOf(Listing, p), total |-> 0],
      [shape |-> "dict", items |-> PageOf(Listing, p), total |-> TotalPages],
      [shape |-> "dict", items |-> PageOf(Listing, p), total |-> 0],
      [shape |-> "other", items |-> << >>, total |-> 0],
      [shape |-> "undecodable", items |-> << >>, total |-> 0] }

LeadsBodies(c) ==
    { [shape |-> "list", items |-> LeadsOf(c)],
      [shape |-> "dict_leads", items |-> LeadsOf(c)],
      [shape |-> "dict_data", items |-> LeadsOf(c)],
      [shape |-> "other", items |-> << >>],
      [shape |-> "undecodable", items |-> << >>] }

FeedBodies(c, type, p) ==
    { [shape |-> "list", items |-> PageOf(ActivitiesOf(c, type), p)],
      [shape |-> "other", items |-> << >>],
      [shape |-> "undecodable", items |-> << >>] }

\* What fetch_with_retry can give its caller, over all outcome sequences.
FetchResults(maxr) == { FetchRun(outs, 0, maxr) : outs \in [1..maxr -> Outcomes] }
DefaultFetchResults == FetchResults(DefaultMaxRetries)
FeedFetchResults == FetchResults(FeedMaxRetries)

(***************************************************************************)
(* process_campaign: what a row is made of                                 *)
(***************************************************************************)
IsActive(lead) == lead.stateSystem # "paused" /\ lead.state # "paused"
ActiveLeads(leads) == SelectSeq(leads, IsActive)

HasActiveLeads(active) ==
    \E k \in 1..Len(active) :
        \/ active[k].state = "readyToSend"
        \/ active[k].stateSystem = "readyToSend"
        \/ active[k].stateSystem = "inProgress"

CampaignStatus_EndedWhenEmpty(active) ==
    IF ~HasActiveLeads(active) THEN "ended" ELSE "active"

CampaignStatus(active) ==
    IF ~HasActiveLeads(active) /\ Len(active) > 0 THEN "ended" ELSE "active"

\* str.strip() on the company names of the snapshot.
Strip(str) ==
    CASE str = " "      -> ""
      [] str = " Acme " -> "Acme"
      [] OTHER          -> str

\* lead.get("companyName") or lead.get("company")
CompanyName(lead) ==
    IF lead.companyName # "" THEN lead.companyName ELSE lead.company

UniqueCompanies(active) ==
    { Strip(CompanyName(active[k])) :
        k \in { j \in 1..Len(active) :
                  CompanyName(active[j]) # "" /\ Strip(CompanyName(active[j])) # "" } }

UniqueLeadIds_PerActivity(acts) ==
    { k \in 1..Len(acts) : acts[k].leadId # "" }

\* The distinct leadId values of the activities that carry one.
UniqueLeadIds(acts) ==
    { acts[k].leadId : k \in { j \in 1..Len(acts) : acts[j].leadId # "" } }

\* round(n / reach * 100, 2), in hundredths of a percent; round() rounds
\* halves to even.
Rate(n, reach) ==
    IF reach > 0
    THEN LET q == (n * 10000) \div reach
             r == (n * 10000) % reach
         IN  IF 2 * r > reach \/ (2 * r = reach /\ q % 2 = 1) THEN q + 1 ELSE q
    ELSE 0

NoRow ==
    [campaign_id |-> 0, companies_count |-> 0, people_count |-> 0,
     people_engaged |-> 0, open_rate |-> 0, reply_rate |-> 0,
     campaign_status |-> "none"]

\* The leads part of a row (lines 250-304), engagement still at its defaults.
LeadsPart(cid, leads) ==
    LET active == ActiveLeads(leads)
    IN  [campaign_id |-> cid,
         companies_count |-> Cardinality(UniqueCompanies(active)),
         people_count |-> Len(active),
         people_engaged |-> 0, open_rate |-> 0, reply_rate |-> 0,
         campaign_status |-> CampaignStatus(active)]

\* Whether computing the statistics raises (lines 393-414): a leadId of the
\* sent, opened or replied feed cannot be put in a set.
StatsRaise(sent, opens, replies) ==
    \E acts \in {sent, opens, replies} :
        \E k \in 1..Len(acts) : acts[k].leadId = Unhashable

StatsFailed_LosesLeads(part) ==
    [part EXCEPT !.people_engaged = 0, !.open_rate = 0, !.reply_rate = 0,
                 !.people_count = 0, !.companies_count = 0]

\* The row after `except Exception as stats_error` (lines 423-449): the
\* counts of the statistics are back at 0, so both rates are 0.
StatsFailed(part) ==
    [part EXCEPT !.people_engaged = 0, !.open_rate = 0, !.reply_rate = 0]

\* The row once the four feeds are in (lines 393-446).
WithStats(part, sent, opens, replies) ==
    IF StatsRaise(sent, opens, replies)
    THEN StatsFailed(part)
    ELSE LET reach == Cardinality(UniqueLeadIds(sent))
         IN  [part EXCEPT !.people_engaged = reach,
                          !.open_rate = Rate(Cardinality(UniqueLeadIds(opens)), reach),
                          !.reply_rate = Rate(Cardinality(UniqueLeadIds(replies)), reach)]

\* The leads a decoded export body yields (lines 250-260).
LeadsFromBody(body) ==
    IF body.shape \in {"list", "dict_leads", "dict_data"} THEN body.items ELSE << >>

LeadsFetched_SwallowsErrors(r, body) == r.kind # "none"

\* Whether the leads export gave the task its leads (lines 225-247): the
\* fetch did not return None, nothing was raised by the fetch, by
\* raise_for_status or by json().
LeadsFetched(r, body) ==
    /\ r.kind # "none"
    /\ r.kind # "raise"
    /\ ~(r.kind = "response" /\ r.status >= 400)
    /\ body.shape # "undecodable"

\* What happened upstream to the leads export, whatever the task made of it.
ExportOutcome(r, body) ==
    IF r.kind = "response" /\ r.status = 200 /\ body.shape # "undecodable"
    THEN "ok" ELSE "failed"

(***************************************************************************)
(* The dashboard request: state before the call                            *)
(***************************************************************************)
IdleFeed == [pc |-> "idle", page |-> 0, acts |-> << >>, errors |-> FALSE]
IdleFeeds == [t \in FeedTypes |-> IdleFeed]
\* A task not started; nth is the rank of its return among the tasks that
\* returned after an await (0: has not, or returned before any).
NewTask == [pc |-> "new", leads |-> "pending", clean |-> TRUE, row |-> NoRow,
            nth |-> 0]

\* The number of tasks that have returned after an await.
Finished(tk) == Cardinality({ j \in DOMAIN tk : tk[j].nth > 0 })

DashIdle ==
    /\ dpc = "idle"
    /\ upstream \in [noid : 0..NumCampaigns]
    /\ page = 0
    /\ all_campaigns = << >>
    /\ listing_end = "walking"
    /\ batch_start = 0
    /\ task = << >>
    /\ feed = << >>
    /\ dashboard_data = << >>

(***************************************************************************)
(* Step 1: the campaign-listing page-walk (lines 152-203)                  *)
(***************************************************************************)
\* What the loop body does with the result of the fetch of page p.
\* `why` tells how the walk ended: "none" (the fetch returned None),
\* "raised" (the fetch raised after its last attempt), "status"
\* (response.raise_for_status() raised), "undecodable" (response.json()
\* raised), "stopped" (a stop condition of the loop).
TotalPagesOf_NoDefault(body) == IF body.total = 0 THEN 1000 ELSE body.total

\* pagination.get("totalPages", 1): a total of 0 stands for a missing key.
TotalPagesOf(body) == IF body.total = 0 THEN 1 ELSE body.total

ListingStep_OnePage(r, body, p) ==
    CASE r.kind = "none"  -> [next |-> "break", items |-> << >>, why |-> "none"]
      [] r.kind = "raise" -> [next |-> "fail", items |-> << >>, why |-> "raised"]
      [] r.status >= 400  -> [next |-> "fail", items |-> << >>, why |-> "status"]
      [] body.shape = "undecodable" ->
            [next |-> "fail", items |-> << >>, why |-> "undecodable"]
      [] OTHER -> [next |-> "break", items |-> body.items, why |-> "stopped"]

ListingStep_IgnoresTotal(r, body, p) ==
    CASE r.kind = "none"  -> [next |-> "break", items |-> << >>, why |-> "none"]
      [] r.kind = "raise" -> [next |-> "fail", items |-> << >>, why |-> "raised"]
      [] r.status >= 400  -> [next |-> "fail", items |-> << >>, why |-> "status"]
      [] body.shape = "undecodable" ->
            [next |-> "fail", items |-> << >>, why |-> "undecodable"]
      [] body.shape \in {"list", "dict"} ->
            [next |-> IF Len(body.items) < PageSize THEN "break" ELSE "more",
             items |-> body.items, why |-> "stopped"]
      [] OTHER -> [next |-> "break", items |-> << >>, why |-> "stopped"]

ListingStep(r, body, p) ==
    CASE r.kind = "none"  -> [next |-> "break", items |-> << >>, why |-> "none"]
      [] r.kind = "raise" -> [next |-> "fail", items |-> << >>, why |-> "raised"]
      [] r.status >= 400  -> [next |-> "fail", items |-> << >>, why |-> "status"]
      [] body.shape = "undecodable" ->
            [next |-> "fail", items |-> << >>, why |-> "undecodable"]
      [] body.shape = "list" ->
            [next |-> IF Len(body.items) < PageSize THEN "break" ELSE "more",
             items |-> body.items, why |-> "stopped"]
      [] body.shape = "dict" ->
            LET total_pages == TotalPagesOf(body)
            IN  IF body.items = << >>
                THEN [next |-> "break", items |-> << >>, why |-> "stopped"]
                ELSE [next |-> IF p >= total_pages - 1 \/ Len(body.items) < PageSize
                               THEN "break" ELSE "more",
                      items |-> body.items, why |-> "stopped"]
      [] OTHER -> [next |-> "break", items |-> << >>, why |-> "stopped"]

(***************************************************************************)
(* Step 2: batches of process_campaign tasks (lines 205-491)               *)
(***************************************************************************)
BatchEnd_Unbounded(start, n) == n

BatchEnd(start, n) == Min(start + BatchSize, n)

StartedTask_NoIdCheck(c) == [NewTask EXCEPT !.pc = "leads"]

\* process_campaign up to its first await: a campaign without _id returns
\* None at once, any other has its leads export requested.
StartedTask(c) ==
    IF c.id = 0
    THEN [pc |-> "done", leads |-> "noid", clean |-> FALSE, row |-> NoRow,
          nth |-> 0]
    ELSE [NewTask EXCEPT !.pc = "leads"]

Started(camps, tk, start, end) ==
    [i \in 1..Len(camps) |->
        IF start < i /\ i <= end THEN StartedTask(camps[i]) ELSE tk[i]]

BatchDone_NoWait(tk, start, end) == TRUE

\* The gather of a batch returns once every task of the batch has returned.
BatchDone(tk, start, end) == \A i \in (start + 1)..end : tk[i].pc = "done"

IsRow(r) == r # NoRow

Emitted_StopAtNone(results) ==
    IF \E k \in 1..Len(results) : ~IsRow(results[k])
    THEN SubSeq(results, 1,
                (CHOOSE k \in 1..Len(results) :
                    /\ ~IsRow(results[k])
                    /\ \A j \in 1..(k - 1) : IsRow(results[j])) - 1)
    ELSE results

Emitted_Reversed(results) ==
    SelectSeq([k \in 1..Len(results) |-> results[Len(results) + 1 - k]], IsRow)

\* for result in batch_results: if result is not None: append
Emitted(results) == SelectSeq(results, IsRow)

\* The batch loop from `start` on: the next gather, or the return of
\* dashboard_data when no batch is left.
RunBatches(camps, tk, start) ==
    IF start >= Len(camps)
    THEN /\ dpc' = "done"
         /\ batch_start' = start
         /\ task' = tk
    ELSE /\ dpc' = "batch"
         /\ batch_start' = start
         /\ task' = Started(camps, tk, start, BatchEnd(start, Len(camps)))

\* The route handler is called (lines 144-156): without an API key it
\* raises HTTPException(500), or else the fetch of listing page 0 starts.
DashCall ==
    /\ dpc = "idle"
    /\ IF Refuses(api_key)
       THEN dpc' = "failed" /\ listing_end' = "no_key"
       ELSE dpc' = "listing" /\ UNCHANGED listing_end
    /\ UNCHANGED <<upstream, page, all_campaigns, batch_start,
                   task, feed, dashboard_data>>
    /\ UNCHANGED <<fetchVars, rowVars, mailVars, postVars, walkVars>>

\* The fetch of the current listing page returns or raises, and the handler
\* runs on: to the fetch of the next page, to the first batch, to the
\* response, or to the HTTPException.
ListPageDone ==
    /\ dpc = "listing"
    /\ \E st \in { ListingStep(r, body, page) :
                      r \in DefaultFetchResults, body \in ListingBodies(page) } :
         LET camps == all_campaigns \o st.items
         IN  /\ all_campaigns' = camps
             /\ CASE st.next = "more" ->
                       /\ page' = page + 1
                       /\ UNCHANGED <<dpc, listing_end, batch_start, task, feed>>
                  [] st.next = "fail" ->
                       /\ dpc' = "failed"
                       /\ listing_end' = st.why
                       /\ UNCHANGED <<page, batch_start, task, feed>>
                  [] OTHER ->
                       /\ listing_end' = st.why
                       /\ feed' = [i \in 1..Len(camps) |-> IdleFeeds]
                       /\ RunBatches(camps, [i \in 1..Len(camps) |-> NewTask], 0)
                       /\ UNCHANGED page
    /\ UNCHANGED <<upstream, dashboard_data>>
    /\ UNCHANGED <<fetchVars, rowVars, mailVars, postVars, walkVars>>

FeedStep_DropsOnError(f, r, body) ==
    IF r.kind # "response" \/ r.status # 200 \/ body.shape # "list"
    THEN [f EXCEPT !.pc = "done", !.errors = TRUE, !.acts = << >>]
    ELSE IF body.items = << >> THEN [f EXCEPT !.pc = "done"]
    ELSE IF Len(body.items) < PageSize \/ f.page + 1 >= FeedMaxPages
         THEN [f EXCEPT !.pc = "done", !.acts = f.acts \o body.items]
         ELSE [f EXCEPT !.acts = f.acts \o body.items, !.page = f.page + 1]

\* What fetch_activity_pages does with the result of the fetch of its
\* current page (lines 336-365).
FeedStep(f, r, body) ==
    IF r.kind # "response" \/ r.status # 200 \/ body.shape # "list"
    THEN [f EXCEPT !.pc = "done", !.errors = TRUE]
    ELSE IF body.items = << >> THEN [f EXCEPT !.pc = "done"]
    ELSE IF Len(body.items) < PageSize \/ f.page + 1 >= FeedMaxPages
         THEN [f EXCEPT !.pc = "done", !.acts = f.acts \o body.items]
         ELSE [f EXCEPT !.acts = f.acts \o body.items, !.page = f.page + 1]

StartedFeed == [IdleFeed EXCEPT !.pc = "fetch"]

\* The task once its leads export has returned or raised (lines 225-304):
\* dropped, or holding the leads part of its row while its feeds run.
AfterLeads(cid, r, body) ==
    IF LeadsFetched(r, body)
    THEN [pc |-> "feeds", leads |-> ExportOutcome(r, body),
          clean |-> body.shape \in {"list", "dict_leads", "dict_data"},
          row |-> LeadsPart(cid, LeadsFromBody(body)), nth |-> 0]
    ELSE [pc |-> "done", leads |-> ExportOutcome(r, body), clean |-> FALSE,
          row |-> NoRow, nth |-> 0]

\* The leads export of the task at position i returns or raises: the task
\* returns None, or derives the leads part of its row and gathers its four
\* feeds, each requesting its page 0.
LeadsDone(i) ==
    /\ dpc = "batch"
    /\ task[i].pc = "leads"
    /\ \E tk \in { AfterLeads(all_campaigns[i].id, r, body) :
                      r \in DefaultFetchResults,
                      body \in LeadsBodies(all_campaigns[i].id) } :
         /\ task' = [task EXCEPT ![i] =
                        IF tk.pc = "done"
                        THEN [tk EXCEPT !.nth = Finished(task) + 1]
                        ELSE tk]
         /\ feed' = IF tk.pc = "feeds"
                    THEN [feed EXCEPT ![i] = [t \in FeedTypes |-> StartedFeed]]
                    ELSE feed
    /\ UNCHANGED <<dpc, upstream, page, all_campaigns, listing_end, batch_start,
                   dashboard_data>>
    /\ UNCHANGED <<fetchVars, rowVars, mailVars, postVars, walkVars>>

\* The fetch of the current page of one feed returns or raises.
FeedPageDone(i, t) ==
    /\ dpc = "batch"
    /\ task[i].pc = "feeds"
    /\ feed[i][t].pc = "fetch"
    /\ \E f \in { FeedStep(feed[i][t], r, body) :
                     r \in FeedFetchResults,
                     body \in FeedBodies(all_campaigns[i].id, t, feed[i][t].page) } :
         feed' = [feed EXCEPT ![i][t] = f]
    /\ UNCHANGED <<dpc, upstream, page, all_campaigns, listing_end, batch_start,
                   task, dashboard_data>>
    /\ UNCHANGED <<fetchVars, rowVars, mailVars, postVars, walkVars>>

RowAfterFeeds_NeedsClicks(part, fd) ==
    IF fd[EmailsClicked].errors \/ fd[EmailsClicked].acts # << >>
    THEN StatsFailed(part)
    ELSE WithStats(part, fd[EmailsSent].acts, fd[EmailsOpened].acts,
                   fd[EmailsReplied].acts)

RowAfterFeeds_NoneOnError(part, fd) ==
    IF \E t \in FeedTypes : fd[t].errors
    THEN NoRow
    ELSE WithStats(part, fd[EmailsSent].acts, fd[EmailsOpened].acts,
                   fd[EmailsReplied].acts)

\* What the task returns once the gather of its feeds has returned (lines
\* 368-449): the errors of a feed are logged and the row is computed from
\* what the sent, opened and replied feeds hold.
RowAfterFeeds(part, fd) ==
    WithStats(part, fd[EmailsSent].acts, fd[EmailsOpened].acts,
              fd[EmailsReplied].acts)

\* The gather of the four feeds returns: the statistics are computed and the
\* task returns its row.
GatherDone(i) ==
    /\ dpc = "batch"
    /\ task[i].pc = "feeds"
    /\ \A t \in FeedTypes : feed[i][t].pc = "done"
    /\ task' = [task EXCEPT ![i] =
          [pc |-> "done", leads |-> task[i].leads,
           clean |-> task[i].clean
                     /\ \A t \in FeedTypes \ {EmailsClicked} : ~feed[i][t].errors,
           row |-> RowAfterFeeds(task[i].row, feed[i]),
           nth |-> Finished(task) + 1]]
    /\ feed' = [feed EXCEPT ![i] = IdleFeeds]
    /\ UNCHANGED <<dpc, upstream, page, all_campaigns, listing_end, batch_start,
                   dashboard_data>>
    /\ UNCHANGED <<fetchVars, rowVars, mailVars, postVars, walkVars>>

\* The gather of the batch returns: its rows are appended in batch order and
\* the loop goes on to the next batch or to the response.
BatchJoin ==
    /\ dpc = "batch"
    /\ LET end == BatchEnd(batch_start, Len(all_campaigns))
       IN  /\ BatchDone(task, batch_start, end)
           /\ dashboard_data' = dashboard_data \o
                 Emitted([k \in 1..(end - batch_start) |-> task[batch_start + k].row])
           /\ RunBatches(all_campaigns, task, end)
    /\ UNCHANGED <<upstream, page, all_campaigns, listing_end, feed>>
    /\ UNCHANGED <<fetchVars, rowVars, mailVars, postVars, walkVars>>

DashNext ==
    \/ DashCall
    \/ ListPageDone
    \/ \E i \in 1..Len(all_campaigns) : LeadsDone(i)
    \/ \E i \in 1..Len(all_campaigns), t \in FeedTypes : FeedPageDone(i, t)
    \/ \E i \in 1..Len(all_campaigns) : GatherDone(i)
    \/ BatchJoin

(***************************************************************************)
(* One campaign's row, from the upstream data to the figures (SpecRow)     *)
(***************************************************************************)
MaxLeads == 2
MaxActs == 2

LeadIds == <<"L1", "L2", "L3", "L4", "L5", "L6", "L7", "L8", "L9", "L10">>

\* A lead of the export with its id, the value the activities' leadId holds.
RowLead(id, st, sys, cn, co) ==
    [id |-> id, state |-> st, stateSystem |-> sys, companyName |-> cn,
     company |-> co]

LeadStates == {"paused", "readyToSend", "inProgress"}
LeadSystemStates == {"paused", "readyToSend", "inProgress", "done"}
\* <<companyName, company>> as the export gives them ("" for a missing key).
CompanyPairs == { <<"Acme", "">>, <<"", " Acme ">>, <<" ", "Bolt">>, <<"", "">> }

\* What a lead of the model can be: any two states with the company
\* "Acme", or paused or not with any company fields.
LeadShapes ==
    (LeadStates \X LeadSystemStates \X { <<"Acme", "">> })
    \cup ({"paused", "inProgress"} \X {"done"} \X CompanyPairs)

\* The exports of n leads.
AnyLeads(n) ==
    { [k \in 1..n |-> RowLead(LeadIds[k], f[k][1], f[k][2], f[k][3][1], f[k][3][2])] :
        f \in [1..n -> LeadShapes] }

\* The exports of the two leads L1 and L2 of one company, each paused or in
\* progress.
PausedOrNot ==
    { << RowLead("L1", st1, "done", "Acme", ""), RowLead("L2", st2, "done", "Acme", "") >> :
        st1 \in {"paused", "inProgress"}, st2 \in {"paused", "inProgress"} }

\* The feeds of at most n activities, on these two leads or without leadId.
FeedsUpTo(n) ==
    UNION { [1..k -> { Activity(l) : l \in {"", "L1", "L2"} }] : k \in 0..n }

AnyFeed == FeedsUpTo(MaxActs)

\* Ten leads of which two are paused, five companies among the other eight;
\* six leads were sent to, three of them opened, one replied.
ScenarioLeads ==
    << RowLead("L1", "inProgress", "inProgress", "Acme", ""),
       RowLead("L2", "inProgress", "done", " Acme ", ""),
       RowLead("L3", "readyToSend", "done", "", "Bolt"),
       RowLead("L4", "inProgress", "done", "Bolt", "Acme"),
       RowLead("L5", "inProgress", "done", "Cody", ""),
       RowLead("L6", "inProgress", "done", "Dyna", ""),
       RowLead("L7", "inProgress", "done", "Echo", ""),
       RowLead("L8", "inProgress", "done", " ", "Fido"),
       RowLead("L9", "paused", "done", "Gulf", ""),
       RowLead("L10", "inProgress", "paused", "Hero", "") >>

ScenarioInput ==
    [leads |-> ScenarioLeads,
     sent |-> << Activity("L1"), Activity("L2"), Activity("L1"), Activity("L3"),
                 Activity("L4"), Activity(""), Activity("L5"), Activity("L6") >>,
     opens |-> << Activity("L1"), Activity("L1"), Activity("L2"), Activity("L3") >>,
     replies |-> << Activity("L1") >>]

\* Feeds of which some hold an activity whose leadId is unhashable.
BrokenFeeds ==
    { << Activity("L1") >>, << Activity("L1"), Activity(Unhashable) >> }

RowInputs ==
    { [leads |-> ls, sent |-> << >>, opens |-> << >>, replies |-> << >>] :
        ls \in UNION { AnyLeads(n) : n \in 0..MaxLeads } }
    \cup
    [leads : PausedOrNot, sent : AnyFeed, opens : AnyFeed, replies : FeedsUpTo(1)]
    \cup
    [leads : PausedOrNot, sent : BrokenFeeds, opens : BrokenFeeds,
     replies : BrokenFeeds]
    \cup
    { ScenarioInput }

NoInput == [leads |-> << >>, sent |-> << >>, opens |-> << >>, replies |-> << >>]

RowIdle ==
    /\ rpc = "idle"
    /\ rin = NoInput
    /\ rrow = NoRow

\* Lines 250-304: the leads of the export give the people, the companies
\* and the campaign status.
RowLeads ==
    /\ rpc = "leads"
    /\ rrow' = LeadsPart(1, rin.leads)
    /\ rpc' = "feeds"
    /\ UNCHANGED rin
    /\ UNCHANGED <<fetchVars, dashVars, mailVars, postVars, walkVars>>

\* Lines 393-446: the feeds give the reach and the two rates.
RowStats ==
    /\ rpc = "feeds"
    /\ rrow' = WithStats(rrow, rin.sent, rin.opens, rin.replies)
    /\ rpc' = "done"
    /\ UNCHANGED rin
    /\ UNCHANGED <<fetchVars, dashVars, mailVars, postVars, walkVars>>

RowNext ==
    \/ RowLeads
    \/ RowStats

(***************************************************************************)
(* GET /api/mailboxes: the upstream snapshot of a request (SpecMail)       *)
(***************************************************************************)
MaxMailboxes == 3

MailboxIds == <<"m1", "m2", "m3", "m4">>

\* A mailbox of the user: its stored email ("" when it has none) and its
\* lemwarm record.
Mailbox(id, email, warming) ==
    [id |-> id, email |-> email, lemwarm |-> [active |-> warming]]

\* A sender of a campaign detail ("" for a missing key).
Sender(email, mid) == [email |-> email, sendUserMailboxId |-> mid]

MailCampaign(id, name, running, leads, senders) ==
    [id |-> id, name |-> name, running |-> running, leads |-> leads,
     senders |-> senders]

\* `"@" in email` on the emails of the snapshot.
HasAt(email) == email \in {"a@x", "b@x"}

\* The order of the emails of the snapshot as Python compares strings.
EmailRank(email) ==
    CASE email = ""    -> 0
      [] email = "a@x" -> 1
      [] email = "b@x" -> 2
      [] OTHER         -> 3

\* An export with a lead that has sending ahead of it, and one without: its
\* lead that is ready to send is paused, the other is merely in progress by
\* its state field.
SendingLeads == << Lead("inProgress", "inProgress", "Acme", "") >>
IdleLeads ==
    << Lead("readyToSend", "paused", "Acme", ""),
       Lead("inProgress", "done", "Acme", "") >>

\* The inventories of n mailboxes, any stored email, warming or not.
Inventories(n) ==
    { [k \in 1..n |-> Mailbox(MailboxIds[k], f[k][1], f[k][2])] :
        f \in [1..n -> {"", "a@x", "b@x"} \X BOOLEAN] }

BaseMailboxes ==
    << Mailbox("m1", "a@x", FALSE), Mailbox("m2", "b@x", TRUE),
       Mailbox("m3", "", FALSE) >>

BaseCampaigns ==
    << MailCampaign(1, "A", TRUE, SendingLeads, << Sender("a@x", "m1") >>),
       MailCampaign(2, "B", TRUE, IdleLeads, << Sender("b@x", "m2") >>) >>

\* The campaigns with one sender: running or not, with or without sending
\* ahead, the sender a mailbox email or not, assigned to mailbox m1 or not.
CampaignChoices(id, names) ==
    { MailCampaign(id, n, r, l, << Sender(e, m) >>) :
        n \in names, r \in BOOLEAN, l \in {SendingLeads, IdleLeads},
        e \in {"a@x", "b@x", "nomail"}, m \in {"", "m1"} }

\* A campaign whose two senders give mailbox m1 two emails, and a later
\* campaign that gives it the first of them again.
TwoSenderCampaigns ==
    << MailCampaign(1, "A", FALSE, IdleLeads,
                    << Sender("a@x", "m1"), Sender("b@x", "m1") >>),
       MailCampaign(2, "B", FALSE, IdleLeads,
                    << Sender("a@x", "m1"), Sender("nomail", "m1") >>) >>

MailSnapshots ==
    { [mailboxes |-> mb, campaigns |-> BaseCampaigns] :
        mb \in UNION { Inventories(n) : n \in 0..MaxMailboxes } }
    \cup
    { [mailboxes |-> BaseMailboxes, campaigns |-> << c1, c2 >>] :
        c1 \in CampaignChoices(1, {"A"}), c2 \in CampaignChoices(2, {"A", "B"}) }
    \cup
    { [mailboxes |-> BaseMailboxes, campaigns |-> TwoSenderCampaigns] }

(***************************************************************************)
(* get_mailboxes: the maps built from the campaign details                 *)
(***************************************************************************)
EmptyMap == [k \in {} |-> 0]

\* dict.get(key, default)
Get(map, key, default) == IF key \in DOMAIN map THEN map[key] ELSE default

\* map[key] = value
Put(map, key, value) ==
    [k \in DOMAIN map \cup {key} |-> IF k = key THEN value ELSE map[k]]

\* email and isinstance(email, str) and "@" in email
IsMailboxEmail(email) == email # "" /\ HasAt(email)

RECURSIVE NamesAfterRunning(_, _, _)
\* Lines 644-652: the running campaign's name is appended to the list of
\* each of its sender emails.
NamesAfterRunning(names, senders, name) ==
    IF senders = << >> THEN names
    ELSE LET e == Head(senders).email
         IN  NamesAfterRunning(
                 IF IsMailboxEmail(e)
                 THEN Put(names, e, Append(Get(names, e, << >>), name))
                 ELSE names,
                 Tail(senders), name)

\* Whether a list holds a value (`in`).
Holds(list, v) == \E k \in 1..Len(list) : list[k] = v

RECURSIVE NamesAfterAll(_, _, _)
\* Lines 713-720: the campaign's name is appended to the list of each of
\* its sender emails unless the list has it.
NamesAfterAll(names, senders, name) ==
    IF senders = << >> THEN names
    ELSE LET e == Head(senders).email
             had == Get(names, e, << >>)
         IN  NamesAfterAll(
                 IF IsMailboxEmail(e)
                 THEN Put(names, e, IF Holds(had, name) THEN had ELSE Append(had, name))
                 ELSE names,
                 Tail(senders), name)

RECURSIVE IdsAfter(_, _)
\* Lines 655-658 and 723-726: each sender email joins the set of its
\* sendUserMailboxId.
IdsAfter(ids, senders) ==
    IF senders = << >> THEN ids
    ELSE LET s == Head(senders)
         IN  IdsAfter(
                 IF IsMailboxEmail(s.email) /\ s.sendUserMailboxId # ""
                 THEN Put(ids, s.sendUserMailboxId,
                          Get(ids, s.sendUserMailboxId, {}) \cup {s.email})
                 ELSE ids,
                 Tail(senders))

InUseAfter_AnyRunning(in_use, senders, has_active_leads) ==
    in_use \cup { senders[k].email :
                    k \in { j \in 1..Len(senders) : IsMailboxEmail(senders[j].email) } }

\* Lines 660-662: the sender emails of a running campaign are in use if the
\* campaign has active leads.
InUseAfter(in_use, senders, has_active_leads) ==
    IF has_active_leads
    THEN in_use \cup { senders[k].email :
                         k \in { j \in 1..Len(senders) : IsMailboxEmail(senders[j].email) } }
    ELSE in_use

RECURSIVE AssignedAfter_FirstWins(_, _)
AssignedAfter_FirstWins(assigned, senders) ==
    IF senders = << >> THEN assigned
    ELSE LET s == Head(senders)
         IN  AssignedAfter_FirstWins(
                 IF IsMailboxEmail(s.email) /\ s.sendUserMailboxId # ""
                    /\ s.sendUserMailboxId \notin DOMAIN assigned
                 THEN Put(assigned, s.sendUserMailboxId, s.email)
                 ELSE assigned,
                 Tail(senders))

RECURSIVE AssignedAfter(_, _)
\* Lines 745-750: the sender email becomes the email of its
\* sendUserMailboxId, whatever the map held for it.
AssignedAfter(assigned, senders) ==
    IF senders = << >> THEN assigned
    ELSE LET s == Head(senders)
         IN  AssignedAfter(
                 IF IsMailboxEmail(s.email) /\ s.sendUserMailboxId # ""
                 THEN Put(assigned, s.sendUserMailboxId, s.email)
                 ELSE assigned,
                 Tail(senders))

(***************************************************************************)
(* get_mailboxes: the response built from the inventory and the maps       *)
(***************************************************************************)
ResolvedEmail_StoredFirst(assigned, mailbox) ==
    IF mailbox.email # "" THEN mailbox.email ELSE Get(assigned, mailbox.id, "")

\* Lines 759-763: the email the campaigns use for the mailbox id, or else
\* the stored one.
ResolvedEmail(assigned, mailbox) ==
    LET email == Get(assigned, mailbox.id, mailbox.email)
    IN  IF email = "" THEN mailbox.email ELSE email

\* Lines 772-780.
IsInUse(in_use, ids, mailbox, email) ==
    \/ email \in in_use
    \/ mailbox.email \in in_use
    \/ \E campaign_email \in Get(ids, mailbox.id, {}) : campaign_email \in in_use

\* Lines 782-783.
IsWarmingUp(mailbox) == mailbox.lemwarm.active

MailboxStatus_WarmingFirst(is_in_use, is_warming_up) ==
    IF is_warming_up THEN "warming up"
    ELSE IF is_in_use THEN "in use"
    ELSE "stuck"

\* Lines 790-797.
MailboxStatus(is_in_use, is_warming_up) ==
    IF is_warming_up /\ is_in_use THEN "conflict"
    ELSE IF is_in_use THEN "in use"
    ELSE IF is_warming_up THEN "warming up"
    ELSE "stuck"

Elements(list) == { list[k] : k \in 1..Len(list) }

\* list(set(...)): the values once each, in an order the hash seed decides.
ListOfSet(S) ==
    { f \in [1..Cardinality(S) -> S] : \A x \in S : \E k \in 1..Cardinality(S) : f[k] = x }

\* `campaigns if campaigns else None`: null, the field never holds an empty
\* list.
NoCampaigns == << >>

\* Lines 805-814 and 820: the values the campaigns field can take.
CampaignsField(names, mailbox, email, status) ==
    IF status \notin {"stuck", "conflict"} THEN { NoCampaigns }
    ELSE LET campaigns == Get(names, email, << >>)
         IN  IF mailbox.email # email /\ mailbox.email \in DOMAIN names
             THEN IF campaigns # << >>
                  THEN ListOfSet(Elements(campaigns \o names[mailbox.email]))
                  ELSE { names[mailbox.email] }
             ELSE { campaigns }

MailboxData(email, status, mailbox_id, campaigns) ==
    [email |-> email, status |-> status, mailbox_id |-> mailbox_id,
     campaigns |-> campaigns]

\* Lines 758-821 for one mailbox: nothing when no email resolves, or else
\* its entry, for each value the campaigns field can take.
EntriesOf(mailbox) ==
    LET email == ResolvedEmail(mailbox_id_to_campaign_email, mailbox)
        status == MailboxStatus(
                      IsInUse(emails_in_use, mailbox_id_to_emails, mailbox, email),
                      IsWarmingUp(mailbox))
    IN  IF email = "" THEN { << >> }
        ELSE { << MailboxData(email, status, mailbox.id, c) >> :
                 c \in CampaignsField(email_to_campaigns, mailbox, email, status) }

RECURSIVE Built(_)
\* The lists the loop over the inventory can build, in inventory order.
Built(mailboxes) ==
    IF mailboxes = << >> THEN { << >> }
    ELSE { e \o rest : e \in EntriesOf(Head(mailboxes)), rest \in Built(Tail(mailboxes)) }

\* status_order.get(x.status, 99)
StatusOrder(status) ==
    CASE status = "stuck"      -> 0
      [] status = "conflict"   -> 1
      [] status = "in use"     -> 2
      [] status = "warming up" -> 3
      [] OTHER                 -> 99

KeyLess_StatusOnly(a, b) == StatusOrder(a.status) < StatusOrder(b.status)

\* (status_order, email) of a is less than that of b.
KeyLess(a, b) ==
    \/ StatusOrder(a.status) < StatusOrder(b.status)
    \/ /\ StatusOrder(a.status) = StatusOrder(b.status)
       /\ EmailRank(a.email) < EmailRank(b.email)

RECURSIVE InsertSorted(_, _)
\* e put into a sorted list behind every entry whose key is not greater.
InsertSorted(e, sorted) ==
    IF sorted = << >> THEN << e >>
    ELSE IF KeyLess(e, Head(sorted)) THEN << e >> \o sorted
    ELSE << Head(sorted) >> \o InsertSorted(e, Tail(sorted))

RECURSIVE SortedByKey(_)
\* list.sort(key=...): a stable sort.
SortedByKey(list) ==
    IF list = << >> THEN << >>
    ELSE InsertSorted(list[Len(list)], SortedByKey(SubSeq(list, 1, Len(list) - 1)))

(***************************************************************************)
(* get_mailboxes: the request, upstream call by upstream call              *)
(***************************************************************************)
\* How a client.get ends: an answer with status 200, one with another
\* status, or an exception.
MailOutcomes == {"ok", "status", "raise"}

NoSnapshot == [mailboxes |-> << >>, campaigns |-> << >>]
LoopStart == [page |-> 0, i |-> 1, has_active_leads |-> FALSE]

MailIdle ==
    /\ mpc = "idle"
    /\ msnap = NoSnapshot
    /\ mloop = LoopStart
    /\ all_mailboxes = << >>
    /\ all_running_campaigns = << >>
    /\ every_campaign = << >>
    /\ emails_in_use = {}
    /\ email_to_campaigns = EmptyMap
    /\ mailbox_id_to_emails = EmptyMap
    /\ mailbox_id_to_campaign_email = EmptyMap
    /\ mailbox_list = << >>
    /\ detail_calls = << >>

IsRunning(c) == c.running

\* A detail call of a campaign as the request's history keeps it.
DetailCall(campaign, o) == [id |-> campaign.id, ok |-> o = "ok"]
\* What the upstream lists for status=running.
RunningCampaigns == SelectSeq(msnap.campaigns, IsRunning)

\* The route handler is called (lines 506-515): without an API key it
\* raises HTTPException(500), or else the team/senders call starts.
MailCall ==
    /\ mpc = "idle"
    /\ mpc' = (IF Refuses(api_key) THEN "failed" ELSE "senders")
    /\ UNCHANGED <<msnap, mloop, all_mailboxes, all_running_campaigns,
                   every_campaign, emails_in_use, email_to_campaigns,
                   mailbox_id_to_emails, mailbox_id_to_campaign_email, mailbox_list>>
    /\ UNCHANGED detail_calls
    /\ UNCHANGED <<fetchVars, dashVars, rowVars, postVars, walkVars>>

\* Lines 515-531: team/senders answers; without a sender or a userId the
\* response is the empty list.
SendersDone ==
    /\ mpc = "senders"
    /\ \E o \in MailOutcomes \cup {"no_user"} :
         mpc' = CASE o = "ok"      -> "user"
                  [] o = "no_user" -> "done"
                  [] OTHER         -> "failed"
    /\ UNCHANGED <<msnap, mloop, all_mailboxes, all_running_campaigns,
                   every_campaign, emails_in_use, email_to_campaigns,
                   mailbox_id_to_emails, mailbox_id_to_campaign_email, mailbox_list>>
    /\ UNCHANGED detail_calls
    /\ UNCHANGED <<fetchVars, dashVars, rowVars, postVars, walkVars>>

\* Lines 536-549: users/{userId} answers with the mailboxes.
UserDone ==
    /\ mpc = "user"
    /\ \E o \in MailOutcomes :
         IF o = "ok"
         THEN mpc' = "running" /\ all_mailboxes' = msnap.mailboxes
         ELSE mpc' = "failed" /\ UNCHANGED all_mailboxes
    /\ UNCHANGED <<msnap, mloop, all_running_campaigns,
                   every_campaign, emails_in_use, email_to_campaigns,
                   mailbox_id_to_emails, mailbox_id_to_campaign_email, mailbox_list>>
    /\ UNCHANGED detail_calls
    /\ UNCHANGED <<fetchVars, dashVars, rowVars, postVars, walkVars>>

\* One turn of a listing loop (lines 555-584, 672-697) on a page that was
\* answered: the list so far, and whether the loop goes on.
ListingTurn(so_far, campaigns) ==
    IF campaigns = << >> THEN [list |-> so_far, more |-> FALSE]
    ELSE [list |-> so_far \o campaigns, more |-> Len(campaigns) >= PageSize]

\* Lines 555-584: a page of the running campaigns answers.
RunningPageDone ==
    /\ mpc = "running"
    /\ \E o \in MailOutcomes :
         IF o = "ok"
         THEN LET turn == ListingTurn(all_running_campaigns,
                                      PageOf(RunningCampaigns, mloop.page))
              IN  /\ all_running_campaigns' = turn.list
                  /\ IF turn.more
                     THEN mpc' = "running"
                          /\ mloop' = [mloop EXCEPT !.page = mloop.page + 1]
                     ELSE mpc' = (IF turn.list = << >> THEN "all" ELSE "run_leads")
                          /\ mloop' = LoopStart
         ELSE mpc' = "failed" /\ UNCHANGED <<all_running_campaigns, mloop>>
    /\ UNCHANGED <<msnap, all_mailboxes, every_campaign, emails_in_use,
                   email_to_campaigns, mailbox_id_to_emails,
                   mailbox_id_to_campaign_email, mailbox_list>>
    /\ UNCHANGED detail_calls
    /\ UNCHANGED <<fetchVars, dashVars, rowVars, postVars, walkVars>>

\* The loop over the running campaigns goes on to its next campaign, or
\* else the request goes on to the full listing.
NextRunning ==
    IF mloop.i < Len(all_running_campaigns)
    THEN mpc' = "run_leads"
         /\ mloop' = [page |-> 0, i |-> mloop.i + 1, has_active_leads |-> FALSE]
    ELSE mpc' = "all" /\ mloop' = LoopStart

\* Lines 598-633: the leads export of a running campaign answers.
RunLeadsDone ==
    /\ mpc = "run_leads"
    /\ \E o \in MailOutcomes :
         IF o = "ok"
         THEN /\ mpc' = "run_detail"
              /\ mloop' = [mloop EXCEPT !.has_active_leads =
                    HasActiveLeads(ActiveLeads(all_running_campaigns[mloop.i].leads))]
         ELSE NextRunning
    /\ UNCHANGED <<msnap, all_mailboxes, all_running_campaigns, every_campaign,
                   emails_in_use, email_to_campaigns, mailbox_id_to_emails,
                   mailbox_id_to_campaign_email, mailbox_list>>
    /\ UNCHANGED detail_calls
    /\ UNCHANGED <<fetchVars, dashVars, rowVars, postVars, walkVars>>

\* Lines 636-667: the detail of a running campaign answers.
RunDetailDone ==
    /\ mpc = "run_detail"
    /\ \E o \in MailOutcomes :
         LET campaign == all_running_campaigns[mloop.i]
         IN  /\ IF o = "ok"
                THEN /\ email_to_campaigns' =
                          NamesAfterRunning(email_to_campaigns, campaign.senders,
                                            campaign.name)
                     /\ mailbox_id_to_emails' =
                          IdsAfter(mailbox_id_to_emails, campaign.senders)
                     /\ emails_in_use' =
                          InUseAfter(emails_in_use, campaign.senders,
                                     mloop.has_active_leads)
                ELSE UNCHANGED <<email_to_campaigns, mailbox_id_to_emails,
                                 emails_in_use>>
             /\ detail_calls' = Append(detail_calls, DetailCall(campaign, o))
             /\ NextRunning
    /\ UNCHANGED <<msnap, all_mailboxes, all_running_campaigns, every_campaign,
                   mailbox_id_to_campaign_email, mailbox_list>>
    /\ UNCHANGED <<fetchVars, dashVars, rowVars, postVars, walkVars>>

\* Lines 672-697: a page of the full campaign listing answers.
AllPageDone ==
    /\ mpc = "all"
    /\ \E o \in MailOutcomes :
         IF o = "ok"
         THEN LET turn == ListingTurn(every_campaign,
                                      PageOf(msnap.campaigns, mloop.page))
              IN  /\ every_campaign' = turn.list
                  /\ IF turn.more
                     THEN mpc' = "all"
                          /\ mloop' = [mloop EXCEPT !.page = mloop.page + 1]
                     ELSE mpc' = (IF turn.list = << >> THEN "build" ELSE "names")
                          /\ mloop' = LoopStart
         ELSE mpc' = "failed" /\ UNCHANGED <<every_campaign, mloop>>
    /\ UNCHANGED <<msnap, all_mailboxes, all_running_campaigns, emails_in_use,
                   email_to_campaigns, mailbox_id_to_emails,
                   mailbox_id_to_campaign_email, mailbox_list>>
    /\ UNCHANGED detail_calls
    /\ UNCHANGED <<fetchVars, dashVars, rowVars, postVars, walkVars>>

\* A loop over the full listing goes on to its next campaign, or else the
\* request goes on to what follows the loop.
NextOfAll(then) ==
    IF mloop.i < Len(every_campaign)
    THEN mpc' = mpc /\ mloop' = [mloop EXCEPT !.i = mloop.i + 1]
    ELSE mpc' = then /\ mloop' = LoopStart

\* Lines 700-729: the detail of a campaign of the full listing answers, for
\* the campaign names of its sender emails.
NamesDetailDone ==
    /\ mpc = "names"
    /\ \E o \in MailOutcomes :
         LET campaign == every_campaign[mloop.i]
         IN  /\ IF o = "ok"
                THEN /\ email_to_campaigns' =
                          NamesAfterAll(email_to_campaigns, campaign.senders,
                                        campaign.name)
                     /\ mailbox_id_to_emails' =
                          IdsAfter(mailbox_id_to_emails, campaign.senders)
                ELSE UNCHANGED <<email_to_campaigns, mailbox_id_to_emails>>
             /\ detail_calls' = Append(detail_calls, DetailCall(campaign, o))
             /\ NextOfAll("emails")
    /\ UNCHANGED <<msnap, all_mailboxes, all_running_campaigns, every_campaign,
                   emails_in_use, mailbox_id_to_campaign_email, mailbox_list>>
    /\ UNCHANGED <<fetchVars, dashVars, rowVars, postVars, walkVars>>

\* Lines 733-753: the detail of a campaign of the full listing answers
\* again, for the email its senders give their mailbox ids.
EmailsDetailDone ==
    /\ mpc = "emails"
    /\ \E o \in MailOutcomes :
         LET campaign == every_campaign[mloop.i]
         IN  /\ IF o = "ok"
                THEN mailbox_id_to_campaign_email' =
                         AssignedAfter(mailbox_id_to_campaign_email, campaign.senders)
                ELSE UNCHANGED mailbox_id_to_campaign_email
             /\ detail_calls' = Append(detail_calls, DetailCall(campaign, o))
             /\ NextOfAll("build")
    /\ UNCHANGED <<msnap, all_mailboxes, all_running_campaigns, every_campaign,
                   emails_in_use, email_to_campaigns, mailbox_id_to_emails,
                   mailbox_list>>
    /\ UNCHANGED <<fetchVars, dashVars, rowVars, postVars, walkVars>>

\* Lines 756-835: the response is built from the inventory and sorted.
MailBuild ==
    /\ mpc = "build"
    /\ \E built \in Built(all_mailboxes) : mailbox_list' = SortedByKey(built)
    /\ mpc' = "done"
    /\ UNCHANGED <<msnap, mloop, all_mailboxes, all_running_campaigns,
                   every_campaign, emails_in_use, email_to_campaigns,
                   mailbox_id_to_emails, mailbox_id_to_campaign_email>>
    /\ UNCHANGED detail_calls
    /\ UNCHANGED <<fetchVars, dashVars, rowVars, postVars, walkVars>>

MailNext ==
    \/ MailCall
    \/ SendersDone
    \/ UserDone
    \/ RunningPageDone
    \/ RunLeadsDone
    \/ RunDetailDone
    \/ AllPageDone
    \/ NamesDetailDone
    \/ EmailsDetailDone
    \/ MailBuild

(***************************************************************************)
(* The POST routes: start-lemwarm, stop-lemwarm, set-inactive              *)
(***************************************************************************)
StartLemwarm == "start-lemwarm"
StopLemwarm == "stop-lemwarm"
SetInactive == "set-inactive"
PostRoutes == {StartLemwarm, StopLemwarm, SetInactive}

\* The path parameter of a POST route: a mailbox id or a campaign id.
PostIds(route) == IF route = SetInactive THEN {"c1", "c2"} ELSE {"m1", "m2"}

\* The upstream endpoint a route posts to.
PostTarget(route) ==
    CASE route = StartLemwarm -> "lemwarm/start"
      [] route = StopLemwarm  -> "lemwarm/pause"
      [] OTHER                -> "campaigns/pause"

\* The keys a server of the POST routes may be configured with.
RouteKeys == ApiKeys \cup {"a", "ab"}

\* The bytes of a key, credentials.encode(): the ASCII codes of its letters.
KeyBytes(key) ==
    CASE key = "k3y" -> << 107, 51, 121 >>
      [] key = "ab"  -> << 97, 98 >>
      [] key = "a"   -> << 97 >>
      [] OTHER       -> << >>

\* The byte of ":".
Colon == 58

Credentials_KeyFirst(key) == KeyBytes(key) \o << Colon >>

\* credentials = f":{LEMLIST_API_KEY}" (line 37), as bytes.
Credentials(key) == << Colon >> \o KeyBytes(key)

\* The sign "=" that fills the last group of a base64 text; the other signs
\* are the indices 0..63 of the base64 alphabet.
B64Pad == 64

\* base64.b64encode (line 38): each three bytes give four signs of six bits,
\* a rest of one or two bytes gives two or three signs and the padding.
RECURSIVE b64encode(_)
b64encode(bytes) ==
    CASE Len(bytes) = 0 -> << >>
      [] Len(bytes) = 1 ->
            << bytes[1] \div 4, (bytes[1] % 4) * 16, B64Pad, B64Pad >>
      [] Len(bytes) = 2 ->
            << bytes[1] \div 4, (bytes[1] % 4) * 16 + bytes[2] \div 16,
               (bytes[2] % 16) * 4, B64Pad >>
      [] OTHER ->
            << bytes[1] \div 4, (bytes[1] % 4) * 16 + bytes[2] \div 16,
               (bytes[2] % 16) * 4 + bytes[3] \div 64, bytes[3] % 64 >>
            \o b64encode(SubSeq(bytes, 4, Len(bytes)))

\* The value of the Authorization header, f"Basic {encoded}" (lines 33-39).
get_auth_header(key) == [scheme |-> "Basic", encoded |-> b64encode(Credentials(key))]

NoAuth == [scheme |-> "none", encoded |-> << >>]

NoPost == [pc |-> "idle", route |-> "none", id |-> "", calls |-> 0,
           target |-> "none", reply |-> 0, auth |-> NoAuth]

PostIdle == post = NoPost

\* The HTTP status the route answers with once client.post has ended:
\* 200 after a 2xx, the upstream status after raise_for_status raised
\* HTTPStatusError, 500 after any other httpx.HTTPError.
PostReply(o) ==
    IF o.kind = "response"
    THEN IF o.status >= 400 THEN o.status ELSE 200
    ELSE 500

\* A POST route is called: without an API key it raises HTTPException(500),
\* or else it posts to its upstream endpoint.
PostCall(route, id) ==
    /\ post.pc = "idle"
    /\ post' = IF Refuses(api_key)
               THEN [NoPost EXCEPT !.pc = "done", !.route = route, !.id = id,
                                   !.reply = 500]
               ELSE [NoPost EXCEPT !.pc = "post", !.route = route, !.id = id,
                                   !.calls = 1, !.target = PostTarget(route),
                                   !.auth = get_auth_header(api_key)]
    /\ UNCHANGED api_key
    /\ UNCHANGED <<fetchVars, dashVars, rowVars, mailVars, walkVars>>

\* client.post returns or raises and the route answers.
PostDone ==
    /\ post.pc = "post"
    /\ \E o \in Outcomes : post' = [post EXCEPT !.pc = "done", !.reply = PostReply(o)]
    /\ UNCHANGED api_key
    /\ UNCHANGED <<fetchVars, dashVars, rowVars, mailVars, walkVars>>

\* Requests to the five routes of one server, at most one to each GET
\* route and one to a POST route.
RoutesNext ==
    \/ DashCall
    \/ MailCall
    \/ \E route \in PostRoutes : \E id \in PostIds(route) : PostCall(route, id)
    \/ PostDone

HasKey == api_key = "k3y" /\ PostIdle

(***************************************************************************)
(* A page-walk against an upstream that answers as it likes (SpecWalk)     *)
(***************************************************************************)
\* Pages 0..WalkCap are followed exactly.  Of the pages above, which the
\* loops treat like any other, only the parity of the index is kept, and
\* their records are left out of the history.
WalkCap == 3

DashWalk == "dashboard"
MailWalk == "mailboxes"
FeedWalk == "feed"
WalkKinds == {DashWalk, MailWalk, FeedWalk}

\* The n records an upstream serves at offset p * PageSize.
WalkPage(p, n) == [k \in 1..n |-> p * PageSize + k]

\* What a 200 answer to page p may carry: a bare array or an envelope of up
\* to PageSize records, the envelope with totalPages 1..WalkCap or without
\* (0), some other JSON value, or bytes json() cannot decode.
WalkBodies(p) ==
    { [shape |-> "list", items |-> WalkPage(p, n), total |-> 0] : n \in 0..PageSize }
    \cup { [shape |-> "dict", items |-> WalkPage(p, n), total |-> t] :
             n \in 0..PageSize, t \in 0..WalkCap }
    \cup { [shape |-> "other", items |-> << >>, total |-> 0],
           [shape |-> "undecodable", items |-> << >>, total |-> 0] }

\* One turn of a listing loop of the mailboxes route (lines 555-584 and
\* 672-697) on the outcome of its client.get for page p.
MailListingStep(o, body, p) ==
    CASE o # "ok" -> [next |-> "fail", items |-> << >>, why |-> "status"]
      [] body.shape = "undecodable" ->
            [next |-> "fail", items |-> << >>, why |-> "undecodable"]
      [] body.shape = "dict" /\ p >= TotalPagesOf(body) - 1 ->
            [next |-> "break", items |-> body.items, why |-> "stopped"]
      [] body.shape \in {"list", "dict"} ->
            LET turn == ListingTurn(<< >>, body.items)
            IN  [next |-> IF turn.more THEN "more" ELSE "break",
                 items |-> turn.list, why |-> "stopped"]
      [] OTHER -> [next |-> "break", items |-> << >>, why |-> "stopped"]

\* One turn of fetch_activity_pages, in the same terms.
FeedWalkStep(r, body, p) ==
    LET f == FeedStep([StartedFeed EXCEPT !.page = p], r, body)
    IN  [next |-> IF f.pc = "done" THEN "break" ELSE "more",
         items |-> f.acts,
         why |-> IF f.errors THEN "error" ELSE "stopped"]

\* What the loop of the kind can do on page p, over every result of its
\* fetch and every body.
WalkSteps(kind, p) ==
    CASE kind = DashWalk ->
            { [step |-> ListingStep(r, body, p), body |-> body] :
                r \in DefaultFetchResults, body \in WalkBodies(p) }
      [] kind = MailWalk ->
            { [step |-> MailListingStep(o, body, p), body |-> body] :
                o \in MailOutcomes, body \in WalkBodies(p) }
      [] OTHER ->
            { [step |-> FeedWalkStep(r, body, p), body |-> body] :
                r \in FeedFetchResults, body \in WalkBodies(p) }

NoBody == [shape |-> "none", items |-> << >>, total |-> 0]

NoWalk == [kind |-> "none", pc |-> "idle", page |-> 0, items |-> << >>,
           asked |-> << >>, last |-> NoBody, why |-> "none"]

WalkIdle == walk = NoWalk

\* The loop starts: page 0 is requested.
WalkCall(kind) ==
    /\ walk.pc = "idle"
    /\ walk' = [NoWalk EXCEPT !.kind = kind, !.pc = "fetch", !.asked = << 0 >>]
    /\ UNCHANGED <<fetchVars, dashVars, rowVars, mailVars, postVars>>

NextPage_Same(p) == p

\* The page index the loop goes on to.
NextPage(p) == IF p < WalkCap + 2 THEN p + 1 ELSE WalkCap + 1

\* The fetch of the current page has ended: the loop keeps the records of
\* the page and requests the next page, stops, or fails the request.
WalkPageDone ==
    /\ walk.pc = "fetch"
    /\ \E t \in WalkSteps(walk.kind, walk.page) :
         LET exact == walk.page <= WalkCap
             kept == IF exact THEN walk.items \o t.step.items ELSE walk.items
         IN  walk' =
               CASE t.step.next = "more" ->
                      [walk EXCEPT !.page = NextPage(walk.page),
                                   !.items = kept,
                                   !.asked = IF walk.page < WalkCap
                                             THEN Append(walk.asked, NextPage(walk.page))
                                             ELSE walk.asked,
                                   !.last = IF exact THEN t.body ELSE NoBody]
                 [] t.step.next = "fail" ->
                      [walk EXCEPT !.pc = "failed", !.why = t.step.why,
                                   !.last = NoBody]
                 [] OTHER ->
                      [walk EXCEPT !.pc = "stopped", !.items = kept,
                                   !.why = t.step.why,
                                   !.last = IF exact /\ t.step.why = "stopped"
                                            THEN t.body ELSE NoBody]
    /\ UNCHANGED <<fetchVars, dashVars, rowVars, mailVars, postVars>>

WalkNext ==
    \/ \E kind \in WalkKinds : WalkCall(kind)
    \/ WalkPageDone

InitDash ==
    /\ FetchInit
    /\ DashIdle
    /\ RowIdle
    /\ MailIdle
    /\ api_key \in ApiKeys
    /\ PostIdle
    /\ WalkIdle

SpecDash == InitDash /\ [][DashNext]_vars

InitFetch ==
    /\ FetchInit
    /\ DashIdle
    /\ upstream.noid = 0
    /\ RowIdle
    /\ MailIdle
    /\ HasKey
    /\ WalkIdle

SpecFetch == InitFetch /\ [][FetchNext]_vars

InitRow ==
    /\ FetchInit
    /\ DashIdle
    /\ upstream.noid = 0
    /\ rpc = "leads"
    /\ rin \in RowInputs
    /\ rrow = NoRow
    /\ MailIdle
    /\ HasKey
    /\ WalkIdle

SpecRow == InitRow /\ [][RowNext]_vars

InitMail ==
    /\ FetchInit
    /\ DashIdle
    /\ upstream.noid = 0
    /\ RowIdle
    /\ mpc = "idle"
    /\ msnap \in MailSnapshots
    /\ mloop = LoopStart
    /\ all_mailboxes = << >>
    /\ all_running_campaigns = << >>
    /\ every_campaign = << >>
    /\ emails_in_use = {}
    /\ email_to_campaigns = EmptyMap
    /\ mailbox_id_to_emails = EmptyMap
    /\ mailbox_id_to_campaign_email = EmptyMap
    /\ mailbox_list = << >>
    /\ detail_calls = << >>
    /\ api_key \in ApiKeys
    /\ PostIdle
    /\ WalkIdle

SpecMail == InitMail /\ [][MailNext]_vars

InitRoutes ==
    /\ FetchInit
    /\ DashIdle
    /\ RowIdle
    /\ MailIdle
    /\ api_key \in RouteKeys
    /\ PostIdle
    /\ WalkIdle

SpecRoutes == InitRoutes /\ [][RoutesNext]_vars

InitWalk ==
    /\ FetchInit
    /\ DashIdle
    /\ upstream.noid = 0
    /\ RowIdle
    /\ MailIdle
    /\ HasKey
    /\ WalkIdle

SpecWalk == InitWalk /\ [][WalkNext]_vars

\* Every upstream call returns or times out: a fetch in progress ends.
LiveWalk == SpecWalk /\ WF_vars(WalkPageDone)

(***************************************************************************)
(* Claims about fetch_with_retry (SpecFetch)                               *)
(***************************************************************************)
LastEntry == log[Len(log)]

\* C1: whatever the upstream outcomes, one call issues at most max_retries
\* requests, and every answered request, a 429 like any other, used up one
\* attempt: the k-th request is the one of attempt k-1.
C1_AtMostMaxRetries ==
    fpc # "idle" =>
        /\ requests <= max_retries
        /\ Len(log) <= requests
        /\ \A k \in 1..Len(log) : log[k].att = k - 1

C1_Witness ==
    /\ fpc = "done"
    /\ max_retries = DefaultMaxRetries
    /\ requests = max_retries
    /\ \E k \in 1..Len(log) : Is429(log[k].out)
    /\ \E k \in 1..Len(log) : Is5xx(log[k].out)

\* C2: when every attempt ends in a 5xx, a timeout or a transport error, the
\* finished call has issued exactly max_retries requests, slept
\* retry_delay * 2^i after each failed attempt i but the last, and raised the
\* last attempt's error; it returned neither a Response nor None.
ErrorOf(o) ==
    CASE o.kind = "timeout" -> Raises("TimeoutException", 0)
      [] o.kind = "error"   -> Raises("TransportError", 0)
      [] OTHER              -> Raises("HTTPStatusError", o.status)

AllTransient == \A k \in 1..Len(log) : IsTransient(log[k].out)

C2_TransientExhaustion ==
    (AllTransient /\ fpc # "idle") =>
        /\ \A k \in 1..Len(log) :
              k < max_retries => /\ log[k].act = "sleep"
                                 /\ log[k].slept = RetryDelay * Pow2(k - 1)
        /\ fpc = "done" =>
              /\ requests = max_retries
              /\ Len(log) = max_retries
              /\ LastEntry.act = "finish"
              /\ LastEntry.slept = 0
              /\ fresult = ErrorOf(LastEntry.out)

C2_Witness ==
    /\ fpc = "done"
    /\ max_retries = 3
    /\ requests = 3
    /\ \A k \in 1..Len(log) : log[k].out.status = 500
    /\ fresult = Raises("HTTPStatusError", 500)

\* C3: a 4xx response other than 429 ends the call on the spot: it is the
\* last request of the call, whatever attempt it came on, and no sleep
\* follows it.
C3_ClientErrorNotRetried ==
    \A k \in 1..Len(log) :
        IsClientError(log[k].out) =>
            /\ k = Len(log)
            /\ requests = k
            /\ fpc = "done"
            /\ log[k].act = "finish"
            /\ log[k].slept = 0

C3_Witness ==
    /\ fpc = "done"
    /\ Len(log) = 3
    /\ IsClientError(log[3].out)
    /\ Is429(log[1].out)
    /\ Is5xx(log[2].out)

\* C4 (as claimed): a 4xx response other than 429 reaches the caller as a
\* raised failure carrying the upstream status, never as a returned Response.
C4_ClientErrorRaised ==
    (fpc = "done" /\ IsClientError(LastEntry.out)) =>
        /\ fresult.kind = "raise"
        /\ fresult.status = LastEntry.out.status

\* C5 (as claimed): a 429 on attempt i that is followed by another request
\* was followed first by a sleep of at least the Retry-After value, or of
\* retry_delay * 2^i when the header is absent.
RequiredDelay(e) ==
    IF e.out.ra.form = "absent" THEN RetryDelay * Pow2(e.att) ELSE e.out.ra.secs

C5_RetryAfterHonoured ==
    \A k \in 1..Len(log) :
        (Is429(log[k].out) /\ requests > k) =>
            log[k].slept >= RequiredDelay(log[k])

(***************************************************************************)
(* Claims about the dashboard request (SpecDash)                           *)
(***************************************************************************)
\* C6 (as claimed): when the fetch of a listing page fails after its retries
\* (it returned None after a last 429, or raised after a last 5xx, timeout or
\* transport error), the request is not aborted: the walk stops and the
\* campaigns accumulated so far go on to be processed.
C6_PartialOnPageFailure ==
    listing_end \in {"none", "raised"} =>
        /\ dpc \in {"batch", "done"}
        /\ DOMAIN task = 1..Len(all_campaigns)

\* The row campaign c gets when all its fetches succeed, from the snapshot.
ExpectedRow(c) ==
    WithStats(LeadsPart(c, LeadsOf(c)), ActivitiesOf(c, EmailsSent),
              ActivitiesOf(c, EmailsOpened), ActivitiesOf(c, EmailsReplied))

RowsUpTo(n) == SelectSeq([i \in 1..n |-> task[i].row], IsRow)

\* C7: no failure inside a campaign aborts the run (only the listing can
\* fail the request), every campaign of every batch is processed, the rows
\* of the batches joined so far are exactly the rows their tasks returned,
\* in listing order, and a campaign whose own fetches all succeeded has the
\* row the snapshot gives it, whatever happened to the other campaigns.
C7_FailureIsolated ==
    /\ dpc = "failed" => task = << >>
    /\ dpc \in {"batch", "done"} =>
          /\ dashboard_data = RowsUpTo(Min(batch_start, Len(all_campaigns)))
          /\ \A i \in 1..Len(all_campaigns) :
                (task[i].pc = "done" /\ task[i].clean) =>
                    task[i].row = ExpectedRow(all_campaigns[i].id)
    /\ dpc = "done" => \A i \in 1..Len(all_campaigns) : task[i].pc = "done"

C7_Witness ==
    /\ dpc = "done"
    /\ Len(all_campaigns) = 3
    /\ task[1].leads = "failed"
    /\ task[2].clean
    /\ task[3].clean
    /\ dashboard_data = << ExpectedRow(2), ExpectedRow(3) >>

\* C8: a campaign whose leads export failed has returned None and has no
\* row, zero-filled or other, in the output.
C8_FailedExportOmitted ==
    \A i \in 1..Len(task) :
        task[i].leads = "failed" =>
            /\ task[i].pc = "done"
            /\ task[i].row = NoRow
            /\ \A k \in 1..Len(dashboard_data) :
                  dashboard_data[k].campaign_id # all_campaigns[i].id

C8_Witness ==
    /\ dpc = "done"
    /\ Len(all_campaigns) = 3
    /\ task[2].leads = "failed"
    /\ Len(dashboard_data) = 2

\* The fetch_with_retry calls in progress; each has at most one request in
\* flight.
CallsInFlight ==
    { <<i, "leads">> : i \in { j \in 1..Len(task) : task[j].pc = "leads" } }
    \cup { x \in (1..Len(task)) \X FeedTypes : feed[x[1]][x[2]].pc = "fetch" }

ListingInFlight == IF dpc = "listing" THEN 1 ELSE 0

\* C9: at most 8 upstream calls are in flight at any instant: at most 2
\* campaigns are being processed, each with at most 4 feed requests, and a
\* campaign's leads export never overlaps its own feed requests.
C9_AtMostEightInFlight ==
    /\ Cardinality(CallsInFlight) + ListingInFlight <= 8
    /\ Cardinality({ i \in 1..Len(task) : task[i].pc \in {"leads", "feeds"} }) <= 2
    /\ dpc = "listing" => task = << >>
    /\ \A i \in 1..Len(task) :
          /\ Cardinality({ t \in FeedTypes : feed[i][t].pc = "fetch" }) <= 4
          /\ task[i].pc # "feeds" => \A t \in FeedTypes : feed[i][t].pc = "idle"

C9_Witness == Cardinality(CallsInFlight) = 8

BatchOf(i) == (i - 1) \div BatchSize

\* C10: a campaign of a later batch is started only when every campaign of
\* every earlier batch has returned.
C10_BatchesSequential ==
    \A i, j \in 1..Len(task) :
        (BatchOf(j) < BatchOf(i) /\ task[i].pc # "new") => task[j].pc = "done"

C10_Witness ==
    /\ Len(task) = 3
    /\ task[3].pc = "feeds"
    /\ task[1].pc = "done"
    /\ task[1].row # NoRow
    /\ task[2].pc = "done"
    /\ task[2].row = NoRow

(***************************************************************************)
(* Claims about the figures of a row (SpecRow)                             *)
(***************************************************************************)
\* The ids of the leads of the export that are paused.
PausedIds ==
    { rin.leads[k].id :
        k \in { j \in 1..Len(rin.leads) :
                  rin.leads[j].state = "paused" \/ rin.leads[j].stateSystem = "paused" } }

\* A feed without the activities that reference a paused lead.
OffPaused(acts) ==
    LET NotOnPaused(a) == a.leadId \notin PausedIds
    IN  SelectSeq(acts, NotOnPaused)

\* C11: a paused lead counts in no figure of the row: people_count is the
\* number of leads that are not paused, and the row is the one the same
\* export gives once every activity that references a paused lead is taken
\* out of the feeds.
C11_PausedExcluded ==
    rpc = "done" =>
        /\ rrow.people_count = Len(rin.leads) - Cardinality(PausedIds)
        /\ rrow = WithStats(LeadsPart(1, rin.leads), OffPaused(rin.sent),
                            OffPaused(rin.opens), OffPaused(rin.replies))

\* C12: both rates of a finished row lie between 0 and 100 percent (rates
\* are in hundredths of a percent), whatever the feeds hold.
C12_RatesWithinRange ==
    rpc = "done" =>
        /\ rrow.open_rate \in 0..10000
        /\ rrow.reply_rate \in 0..10000

\* The number of distinct leadId values among the activities of a feed.
Distinct(acts) ==
    Cardinality({ l \in { LeadIds[k] : k \in 1..Len(LeadIds) } :
                    \E j \in 1..Len(acts) : acts[j].leadId = l })

\* v is 100 * n / reach rounded to two decimals, in hundredths of a percent.
IsPercentOf(v, n, reach) ==
    /\ 2 * (v * reach - 10000 * n) <= reach
    /\ 2 * (10000 * n - v * reach) <= reach

\* C13: people_engaged is the number of distinct leadId values among the
\* emailsSent activities; with a reach above zero open_rate and reply_rate
\* are 100 times the distinct opening, respectively replying, leads over
\* the reach, to two decimals; with a reach of zero both rates are 0.  This
\* is for statistics computed without an exception (C29 has the other case).
C13_EngagementFigures ==
    (rpc = "done" /\ ~StatsRaise(rin.sent, rin.opens, rin.replies)) =>
        LET reach == Distinct(rin.sent)
        IN  /\ rrow.people_engaged = reach
            /\ reach > 0 =>
                /\ IsPercentOf(rrow.open_rate, Distinct(rin.opens), reach)
                /\ IsPercentOf(rrow.reply_rate, Distinct(rin.replies), reach)
            /\ reach = 0 => rrow.open_rate = 0 /\ rrow.reply_rate = 0

\* Eight activities on six leads were sent, three of the leads opened: the
\* reach is 6 and the open rate 50.00.
C13_Witness ==
    /\ rpc = "done"
    /\ Len(rin.sent) = 8
    /\ rrow.people_engaged = 6
    /\ rrow.open_rate = 5000
    /\ rrow.reply_rate = 1667

\* A lead that is not paused and still has sending ahead of it.
StillSending(lead) ==
    /\ lead.state # "paused"
    /\ lead.stateSystem # "paused"
    /\ \/ lead.state = "readyToSend"
       \/ lead.stateSystem \in {"readyToSend", "inProgress"}

\* C14: the status of a row is "ended" exactly when the export has a lead
\* that is not paused and none of these has sending ahead of it; otherwise
\* it is "active"; an ended row has a people_count above zero.
C14_StatusEnded ==
    rpc \in {"feeds", "done"} =>
        LET some == \E k \in 1..Len(rin.leads) :
                        rin.leads[k].state # "paused" /\ rin.leads[k].stateSystem # "paused"
            sending == \E k \in 1..Len(rin.leads) : StillSending(rin.leads[k])
        IN  /\ rrow.campaign_status = (IF some /\ ~sending THEN "ended" ELSE "active")
            /\ rrow.campaign_status = "ended" => rrow.people_count > 0

\* A row that ended although one of its two leads is paused with sending
\* ahead of it, and a row that is active for want of any lead that counts.
C14_Witness ==
    /\ rpc = "done"
    /\ Len(rin.leads) = 2
    /\ rin.leads[1].state = "readyToSend"
    /\ rin.leads[1].stateSystem = "paused"
    /\ rin.leads[2].state = "inProgress"
    /\ rin.leads[2].stateSystem = "done"
    /\ rrow.campaign_status = "ended"
    /\ rrow.people_count = 1

(***************************************************************************)
(* Claims about the activity feeds of a campaign (SpecDash)                *)
(***************************************************************************)
\* The task at position i returns from the gather of its feeds in this step.
Gathers(i) == task[i].pc = "feeds" /\ task'[i].pc = "done"

\* What a feed contributes if a feed that failed counts as an empty list.
EmptyIfFailed(f) == IF f.errors THEN << >> ELSE f.acts

\* C15 as stated: a feed whose fetch failed on any page is an empty list,
\* none of its activities, those of the pages fetched before the failure
\* included, contribute to the figures of the row.
C15_FailedFeedEmpty ==
    [][\A i \in 1..Len(task) :
          Gathers(i) =>
              task'[i].row = WithStats(task[i].row,
                                       EmptyIfFailed(feed[i][EmailsSent]),
                                       EmptyIfFailed(feed[i][EmailsOpened]),
                                       EmptyIfFailed(feed[i][EmailsReplied]))]_vars

\* The first n pages of a feed of the snapshot.
FirstPages(c, type, n) ==
    SubSeq(ActivitiesOf(c, type), 1, Min(n * PageSize, Len(ActivitiesOf(c, type))))

\* A feed that failed on page n holds the activities of pages 0..n-1.
KeepsEarlierPages ==
    \A i \in 1..Len(feed) : \A t \in FeedTypes :
        feed[i][t].errors =>
            /\ feed[i][t].pc = "done"
            /\ feed[i][t].acts = FirstPages(all_campaigns[i].id, t, feed[i][t].page)

\* C15, amended: a feed whose fetch fails on page n stops there and keeps
\* the activities of the pages 0..n-1 fetched before the failure (none when
\* n = 0); what the sent, opened and replied feeds hold when the gather
\* returns, failed or not, is what the figures of the row are computed from.
C15_FailedFeedKeepsEarlierPages ==
    /\ []KeepsEarlierPages
    /\ [][\A i \in 1..Len(task) :
             Gathers(i) =>
                 task'[i].row = WithStats(task[i].row,
                                          feed[i][EmailsSent].acts,
                                          feed[i][EmailsOpened].acts,
                                          feed[i][EmailsReplied].acts)]_vars

\* The sent feed of a campaign failed on its second page and holds the two
\* activities of the first, while the gather has yet to return.
C15_Witness ==
    \E i \in 1..Len(feed) :
        /\ task[i].pc = "feeds"
        /\ feed[i][EmailsSent].errors
        /\ feed[i][EmailsSent].page = 1
        /\ Len(feed[i][EmailsSent].acts) = PageSize
        /\ \A t \in FeedTypes : feed[i][t].pc = "done"

(***************************************************************************)
(* Claims about the mailboxes response (SpecMail)                          *)
(***************************************************************************)
\* The position in the inventory of the mailbox with this id.
InventoryPos(id) ==
    CHOOSE k \in 1..Len(all_mailboxes) : all_mailboxes[k].id = id

\* The mailbox of the inventory an entry of the response was made from.
MailboxOf(entry) == all_mailboxes[InventoryPos(entry.mailbox_id)]

\* Some email of the entry (resolved, stored, or used under its mailbox
\* id in a campaign) is in emails_in_use.
SomeEmailInUse(entry) ==
    \/ entry.email \in emails_in_use
    \/ MailboxOf(entry).email \in emails_in_use
    \/ /\ entry.mailbox_id \in DOMAIN mailbox_id_to_emails
       /\ mailbox_id_to_emails[entry.mailbox_id] \cap emails_in_use # {}

\* C16: the status of every mailbox of the response is given by its two
\* flags alone: in use and warming up is "conflict", in use only "in use",
\* warming up only "warming up", neither "stuck".
C16_StatusFromFlags ==
    mpc = "done" =>
        \A k \in 1..Len(mailbox_list) :
            LET entry == mailbox_list[k]
                in_use == SomeEmailInUse(entry)
                warming == MailboxOf(entry).lemwarm.active
            IN  entry.status =
                    CASE in_use /\ warming   -> "conflict"
                      [] in_use /\ ~warming  -> "in use"
                      [] ~in_use /\ warming  -> "warming up"
                      [] OTHER               -> "stuck"

\* A response with a mailbox in conflict, one warming up and one stuck.
C16_Witness ==
    /\ mpc = "done"
    /\ \A st \in {"conflict", "warming up", "stuck"} :
         \E k \in 1..Len(mailbox_list) : mailbox_list[k].status = st

\* The sort key of the entry at position k of the response.
KeyAt(k) == << StatusOrder(mailbox_list[k].status), EmailRank(mailbox_list[k].email) >>

\* C17: the response is in ascending order of (status priority, email), and
\* entries with equal keys are in the order of the inventory.
C17_SortedStable ==
    mpc = "done" =>
        \A j \in 1..Len(mailbox_list) : \A k \in (j + 1)..Len(mailbox_list) :
            /\ \/ KeyAt(j)[1] < KeyAt(k)[1]
               \/ KeyAt(j)[1] = KeyAt(k)[1] /\ KeyAt(j)[2] <= KeyAt(k)[2]
            /\ KeyAt(j) = KeyAt(k) =>
                   InventoryPos(mailbox_list[j].mailbox_id)
                       < InventoryPos(mailbox_list[k].mailbox_id)

\* Three mailboxes of which the first of the inventory is answered last and
\* the two others have equal keys.
C17_Witness ==
    /\ mpc = "done"
    /\ Len(mailbox_list) = 3
    /\ mailbox_list[3].mailbox_id = "m1"
    /\ KeyAt(1) = KeyAt(2)
    /\ KeyAt(2) # KeyAt(3)

\* C18: the campaigns field is null for a mailbox in use or warming up, and
\* where it is populated the mailbox is stuck or in conflict and the field
\* holds the campaign names recorded for the resolved email and for the
\* stored email, each name once.
C18_CampaignsOnceEach ==
    mpc = "done" =>
        \A k \in 1..Len(mailbox_list) :
            LET entry == mailbox_list[k]
            IN  /\ entry.status \in {"in use", "warming up"} =>
                       entry.campaigns = NoCampaigns
                /\ entry.campaigns # NoCampaigns =>
                       /\ entry.status \in {"stuck", "conflict"}
                       /\ Elements(entry.campaigns) =
                              Elements(Get(email_to_campaigns, entry.email, << >>))
                              \cup Elements(Get(email_to_campaigns,
                                                MailboxOf(entry).email, << >>))
                       /\ Len(entry.campaigns) = Cardinality(Elements(entry.campaigns))

\* C19: a mailbox is answered with the email the campaigns use for its id
\* if there is one and with its stored email otherwise; a mailbox without
\* either is left out, every other mailbox of the inventory is answered
\* once, and nothing else is.
C19_ResolvedEmail ==
    mpc = "done" =>
        /\ \A k \in 1..Len(all_mailboxes) :
             LET mailbox == all_mailboxes[k]
                 expected == IF mailbox.id \in DOMAIN mailbox_id_to_campaign_email
                             THEN mailbox_id_to_campaign_email[mailbox.id]
                             ELSE mailbox.email
                 entries == { j \in 1..Len(mailbox_list) :
                                mailbox_list[j].mailbox_id = mailbox.id }
             IN  IF expected = "" THEN entries = {}
                 ELSE /\ Cardinality(entries) = 1
                      /\ \A j \in entries : mailbox_list[j].email = expected
        /\ \A j \in 1..Len(mailbox_list) :
             \E k \in 1..Len(all_mailboxes) :
                 all_mailboxes[k].id = mailbox_list[j].mailbox_id

\* Of three mailboxes the one without email is left out and the first,
\* stored as a@x, is answered as b@x, the email a campaign uses for it.
C19_Witness ==
    /\ mpc = "done"
    /\ Len(all_mailboxes) = 3
    /\ all_mailboxes[1].email = "a@x"
    /\ Len(mailbox_list) = 2
    /\ \E j \in 1..2 :
         mailbox_list[j].mailbox_id = "m1" /\ mailbox_list[j].email = "b@x"

\* C20: a mailbox is answered as in use ("in use" or "conflict") exactly
\* when its resolved email, its stored email or an email used under its id
\* is in emails_in_use; emails_in_use holds only '@'-bearing sender emails
\* of running campaigns whose export has a lead that is not paused with
\* state readyToSend or stateSystem readyToSend or inProgress.
C20_InUse ==
    /\ mpc = "done" =>
         \A k \in 1..Len(mailbox_list) :
             mailbox_list[k].status \in {"in use", "conflict"}
                 <=> SomeEmailInUse(mailbox_list[k])
    /\ \A e \in emails_in_use :
         /\ HasAt(e)
         /\ \E i \in 1..Len(msnap.campaigns) :
              LET c == msnap.campaigns[i]
              IN  /\ c.running
                  /\ \E l \in 1..Len(c.leads) : StillSending(c.leads[l])
                  /\ \E n \in 1..Len(c.senders) : c.senders[n].email = e

\* Mailbox m1 sends as a@x for a running campaign without sending ahead and
\* for a campaign with sending ahead that is not running: it is stuck.
C20_Witness ==
    /\ mpc = "done"
    /\ Len(msnap.campaigns) = 2
    /\ msnap.campaigns[1].running /\ msnap.campaigns[1].leads = IdleLeads
    /\ ~msnap.campaigns[2].running /\ msnap.campaigns[2].leads = SendingLeads
    /\ \A i \in 1..2 : msnap.campaigns[i].senders = << Sender("a@x", "m1") >>
    /\ "a@x" \in DOMAIN email_to_campaigns
    /\ "m1" \in DOMAIN mailbox_id_to_emails
    /\ \E k \in 1..Len(mailbox_list) :
         mailbox_list[k].mailbox_id = "m1" /\ mailbox_list[k].status = "stuck"

(***************************************************************************)
(* Claims about the routes of the server (SpecRoutes)                      *)
(***************************************************************************)
\* C21: on a server without API key every route that was called has
\* answered with HTTP 500 and no upstream request was issued: the dashboard
\* and the mailboxes route failed from their first statement, and a POST
\* route answered 500 without a call to its upstream endpoint.
C21_NoKeyRefuses ==
    api_key = "" =>
        /\ dpc \in {"idle", "failed"}
        /\ dpc = "failed" => listing_end = "no_key"
        /\ requests = 0
        /\ mpc \in {"idle", "failed"}
        /\ post.pc \in {"idle", "done"}
        /\ post.pc = "done" => post.reply = 500 /\ post.calls = 0
        /\ post.target = "none"

\* Without API key the dashboard, the mailboxes route and set-inactive have
\* been called and have refused.
C21_Witness ==
    /\ api_key = ""
    /\ dpc = "failed"
    /\ mpc = "failed"
    /\ post.pc = "done"
    /\ post.route = SetInactive
    /\ post.reply = 500

(***************************************************************************)
(* Claims on the page-walks                                                *)
(***************************************************************************)
IsListingWalk == walk.kind \in {DashWalk, MailWalk}

\* The sequence s ends with the sequence t.
EndsWith(s, t) ==
    /\ Len(t) <= Len(s)
    /\ \A k \in 1..Len(t) : s[Len(s) - Len(t) + k] = t[k]

\* The index of the page whose records are the non-empty sequence items.
PageIndexOf(items) == (items[1] - 1) \div PageSize

\* C22: after a listing page that is a bare array, every element of the
\* page is kept; a page of fewer than PageSize elements ends the walk with
\* no request for the next page, and a full page is followed by the request
\* for the page after it.
C22_BareArrayWalk ==
    (IsListingWalk /\ walk.last.shape = "list") =>
        LET n == Len(walk.last.items)
        IN  /\ EndsWith(walk.items, walk.last.items)
            /\ n < PageSize => walk.pc = "stopped"
            /\ n = PageSize =>
                 /\ walk.pc = "fetch"
                 /\ walk.page = PageIndexOf(walk.last.items) + 1

\* A full first page, then a short one: the walk asked for pages 0 and 1
\* and stopped with every element of both.
C22_Witness ==
    /\ walk.kind = DashWalk
    /\ walk.pc = "stopped"
    /\ walk.last.shape = "list"
    /\ walk.asked = << 0, 1 >>
    /\ walk.items = WalkPage(0, PageSize) \o WalkPage(1, 1)

\* After an envelope page the walk goes on only below the reported
\* totalPages and only after a full page.
EnvelopeBounds ==
    (IsListingWalk /\ walk.last.shape = "dict") =>
        /\ walk.pc \in {"fetch", "stopped"}
        /\ walk.pc = "fetch" =>
             /\ walk.page < walk.last.total
             /\ Len(walk.last.items) = PageSize

\* The step that takes an envelope page adds all its records to the kept.
EnvelopeKept ==
    (IsListingWalk /\ walk'.last.shape = "dict" /\ walk'.last # walk.last) =>
        walk'.items = walk.items \o walk'.last.items

\* C23: with envelope pages the walk never requests a page index at or
\* above the totalPages the page before reported, stops after a page of
\* fewer than PageSize or of no records, and keeps every record of every
\* page it took.
C23_EnvelopeWalk == []EnvelopeBounds /\ [][EnvelopeKept]_vars

\* Two full envelope pages reporting totalPages 2: the walk stops after
\* page 1 with the records of both.
C23_Witness ==
    /\ walk.kind = MailWalk
    /\ walk.pc = "stopped"
    /\ walk.last.shape = "dict"
    /\ walk.last.total = 2
    /\ walk.asked = << 0, 1 >>
    /\ walk.items = WalkPage(0, PageSize) \o WalkPage(1, PageSize)

\* The pages asked so far are 0, 1, 2, ... in this order, and the request
\* in progress is the last of them.
AskedInOrder ==
    /\ \A k \in 1..Len(walk.asked) : walk.asked[k] = k - 1
    /\ (walk.pc = "fetch" /\ walk.page <= WalkCap) =>
          walk.page = walk.asked[Len(walk.asked)]

\* A page is asked for only by the step that ends the fetch of the page
\* before it, one page at a time.
AskedAfterDone ==
    walk'.asked # walk.asked =>
        /\ walk.pc \in {"idle", "fetch"}
        /\ walk'.pc = "fetch"
        /\ walk'.asked = Append(walk.asked, Len(walk.asked))
        /\ walk.pc = "fetch" => walk'.page = walk.page + 1

\* C24: within one walk the pages are requested in increasing offset order,
\* none skipped or repeated, and a page is requested only when the fetch of
\* the page before it has ended.
C24_PagesInOrder == []AskedInOrder /\ [][AskedAfterDone]_vars

\* A feed that was answered three full pages asks for the fourth.
C24_Witness ==
    /\ walk.kind = FeedWalk
    /\ walk.pc = "fetch"
    /\ walk.asked = << 0, 1, 2, 3 >>
    /\ Len(walk.items) = 3 * PageSize

(***************************************************************************)
(* Claims on the assembly of the dashboard output                          *)
(***************************************************************************)
\* The position in the listing of the campaign of the k-th output row.
ListedAt(k) ==
    CHOOSE i \in 1..Len(all_campaigns) :
        all_campaigns[i].id = dashboard_data[k].campaign_id

\* The output is made of rows that tasks returned, in the order of the
\* listing, with no campaign twice.
InListingOrder ==
    /\ \A k \in 1..Len(dashboard_data) :
          \E i \in 1..Len(all_campaigns) :
              /\ all_campaigns[i].id = dashboard_data[k].campaign_id
              /\ task[i].pc = "done"
              /\ task[i].row = dashboard_data[k]
    /\ \A k, l \in 1..Len(dashboard_data) : k < l => ListedAt(k) < ListedAt(l)

\* C25: the output lists the campaigns that returned a row in the order of
\* the upstream listing, each at most once, whatever the order in which the
\* tasks of a batch returned; the finished output has the row of every task
\* that returned one, and when every fetch was answered from the snapshot it
\* is the rows of the snapshot in listing order.
C25_OutputInListingOrder ==
    dpc \in {"batch", "done"} =>
        /\ InListingOrder
        /\ dpc = "done" =>
              /\ \A i \in 1..Len(all_campaigns) :
                    IsRow(task[i].row) =>
                        \E k \in 1..Len(dashboard_data) : dashboard_data[k] = task[i].row
              /\ (\A i \in 1..Len(all_campaigns) : task[i].clean) =>
                    dashboard_data =
                        [i \in 1..Len(all_campaigns) |-> ExpectedRow(all_campaigns[i].id)]

\* The second campaign of the first batch returned before the first, and
\* the output still has the three rows in listing order.
C25_Witness ==
    /\ dpc = "done"
    /\ Len(all_campaigns) = 3
    /\ task[2].nth > 0
    /\ task[2].nth < task[1].nth
    /\ dashboard_data = << ExpectedRow(1), ExpectedRow(2), ExpectedRow(3) >>

\* C26: the calls of the mailboxes route are retried on a transient
\* failure, and a listing page that still fails ends the walk with the
\* campaigns of the pages before it instead of failing the request.
C26_MailListingDegrades ==
    walk.kind = MailWalk => walk.pc # "failed"

\* C27: given that every upstream call returns or times out, the listing
\* walk of a dashboard request comes to an end, by stopping or by failing,
\* whatever the upstream answers.
C27_DashboardTerminates ==
    (walk.kind = DashWalk /\ walk.pc = "fetch") ~> (walk.pc \in {"stopped", "failed"})

(***************************************************************************)
(* Claims on the feeds of one campaign                                     *)
(***************************************************************************)
\* A feed of a running task that ended without error holds all the
\* activities of its type, whatever happened to the other feeds.
CleanFeedsFull ==
    \A i \in 1..Len(feed) : \A t \in FeedTypes :
        (task[i].pc = "feeds" /\ feed[i][t].pc = "done" /\ ~feed[i][t].errors) =>
            feed[i][t].acts = ActivitiesOf(all_campaigns[i].id, t)

\* The step in which a feed fails changes no other feed and leaves the task
\* waiting for them.
FailureKeepsSiblings ==
    \A i \in 1..Len(feed) : \A t \in FeedTypes :
        (task[i].pc = "feeds" /\ ~feed[i][t].errors /\ i \in DOMAIN feed'
            /\ feed'[i][t].errors) =>
                /\ task'[i] = task[i]
                /\ \A u \in FeedTypes \ {t} : feed'[i][u] = feed[i][u]

\* The task whose feeds have all ended returns a row, failed feeds or not.
GatherGivesRow ==
    \A i \in 1..Len(task) :
        Gathers(i) =>
            /\ \A t \in FeedTypes : feed[i][t].pc = "done"
            /\ IsRow(task'[i].row)
            /\ task'[i].row.campaign_id = all_campaigns[i].id

\* C28: the failure of one feed of a campaign is not fatal and does not
\* touch its siblings: they run to their end, those that end without error
\* hold their full data, and the task still returns its row.
C28_FeedFailureIsolated ==
    /\ []CleanFeedsFull
    /\ [][FailureKeepsSiblings]_vars
    /\ [][GatherGivesRow]_vars

\* The opened feed of campaign 1 failed on its first page: the row is in
\* the output with the reach of the whole sent feed and an open rate of 0.
C28_Witness ==
    /\ dpc = "done"
    /\ Len(dashboard_data) > 0
    /\ dashboard_data[1] # ExpectedRow(1)
    /\ dashboard_data[1] =
          WithStats(LeadsPart(1, LeadsOf(1)), ActivitiesOf(1, EmailsSent),
                    << >>, ActivitiesOf(1, EmailsReplied))

(***************************************************************************)
(* Claims on the statistics of a row that fail                             *)
(***************************************************************************)
\* C29: when computing the engagement statistics raises outside the feeds'
\* own error handling, the row is still returned, with people_engaged,
\* open_rate and reply_rate at 0 and with the people_count, companies_count
\* and campaign_status the leads export gave.
C29_StatsFailureZeroes ==
    (rpc = "done" /\ StatsRaise(rin.sent, rin.opens, rin.replies)) =>
        /\ IsRow(rrow)
        /\ rrow.people_engaged = 0
        /\ rrow.open_rate = 0
        /\ rrow.reply_rate = 0
        /\ rrow.people_count = Len(rin.leads) - Cardinality(PausedIds)
        /\ rrow.companies_count = LeadsPart(1, rin.leads).companies_count
        /\ rrow.campaign_status = LeadsPart(1, rin.leads).campaign_status

\* The sent feed counted one lead reached before the opened feed raised:
\* the row has a reach of 0 and the two people of the export.
C29_Witness ==
    /\ rpc = "done"
    /\ rin.sent = << Activity("L1") >>
    /\ rin.opens = << Activity("L1"), Activity(Unhashable) >>
    /\ rrow.people_engaged = 0
    /\ rrow.people_count = 2
    /\ rrow.companies_count > 0

(***************************************************************************)
(* Claims on the companies of a row                                        *)
(***************************************************************************)
\* The leads of the export that are not paused.
NotPaused ==
    { k \in 1..Len(rin.leads) :
        rin.leads[k].state # "paused" /\ rin.leads[k].stateSystem # "paused" }

\* The first of companyName and company that is a name once trimmed, or "".
FirstRealName(lead) ==
    IF Strip(lead.companyName) # "" THEN Strip(lead.companyName)
    ELSE Strip(lead.company)

\* C30: companies_count is the number of distinct trimmed names among the
\* leads that are not paused, the name of a lead being the first of
\* companyName and company that is not empty, so that a lead with an empty
\* or whitespace-only companyName and a real company counts with its
\* company; people_count is the number of leads that are not paused.
C30_CompaniesCount ==
    rpc \in {"feeds", "done"} =>
        /\ rrow.companies_count =
              Cardinality({ FirstRealName(rin.leads[k]) : k \in NotPaused } \ {""})
        /\ rrow.people_count = Cardinality(NotPaused)

\* C37: an envelope page without totalPages ends the walk of a listing: a
\* full page 0 of this kind is kept and no later page is requested.
C37_NoTotalIsOnePage ==
    (IsListingWalk /\ walk.last.shape = "dict" /\ walk.last.total = 0) =>
        /\ walk.pc = "stopped"
        /\ EndsWith(walk.items, walk.last.items)
        /\ walk.last.items # << >> =>
              walk.asked = [k \in 1..(PageIndexOf(walk.last.items) + 1) |-> k - 1]

\* A full envelope page 0 without totalPages: the walk stopped on it.
C37_Witness ==
    /\ walk.kind = DashWalk
    /\ walk.pc = "stopped"
    /\ walk.last.shape = "dict"
    /\ walk.last.total = 0
    /\ walk.asked = << 0 >>
    /\ walk.items = WalkPage(0, PageSize)

(***************************************************************************)
(* Claims on the credential sent upstream                                  *)
(***************************************************************************)
\* The bytes a base64 text stands for.
RECURSIVE B64Decode(_)
B64Decode(signs) ==
    IF Len(signs) < 4 THEN << >>
    ELSE LET a == signs[1]
             b == signs[2]
             c == signs[3]
             d == signs[4]
             first == a * 4 + b \div 16
             second == (b % 16) * 16 + c \div 4
             third == (c % 4) * 64 + d
         IN  (CASE c = B64Pad -> << first >>
                [] d = B64Pad -> << first, second >>
                [] OTHER      -> << first, second, third >>)
             \o B64Decode(SubSeq(signs, 5, Len(signs)))

\* The position of the first colon of a credential (0 if it has none).
FirstColon(bytes) ==
    IF \E k \in 1..Len(bytes) : bytes[k] = Colon
    THEN CHOOSE k \in 1..Len(bytes) :
            bytes[k] = Colon /\ \A j \in 1..(k - 1) : bytes[j] # Colon
    ELSE 0

\* The username and the password of a Basic credential: what is before and
\* what is after its first colon.
UserOf(bytes) == SubSeq(bytes, 1, FirstColon(bytes) - 1)
PassOf(bytes) == SubSeq(bytes, FirstColon(bytes) + 1, Len(bytes))

\* C34 as stated: the credential sent upstream is the base64 text of the
\* API key followed by a colon, the key as username and no password.
C34_KeyIsUsername ==
    post.calls > 0 =>
        /\ post.auth.scheme = "Basic"
        /\ B64Decode(post.auth.encoded) = KeyBytes(api_key) \o << Colon >>
        /\ UserOf(B64Decode(post.auth.encoded)) = KeyBytes(api_key)
        /\ PassOf(B64Decode(post.auth.encoded)) = << >>

\* C34, amended: the credential sent upstream is the base64 text of a colon
\* followed by the API key: no username, and the key as password.
C34_KeyIsPassword ==
    post.calls > 0 =>
        /\ post.auth.scheme = "Basic"
        /\ Len(post.auth.encoded) = 4 * ((Len(KeyBytes(api_key)) + 3) \div 3)
        /\ FirstColon(B64Decode(post.auth.encoded)) = 1
        /\ UserOf(B64Decode(post.auth.encoded)) = << >>
        /\ PassOf(B64Decode(post.auth.encoded)) = KeyBytes(api_key)

\* A request went upstream with the credential of the key "k3y": the four
\* bytes ":k3y", which base64 writes as "OmszeQ==".
C34_Witness ==
    /\ api_key = "k3y"
    /\ post.calls = 1
    /\ post.auth.encoded = << 14, 38, 44, 51, 30, 16, B64Pad, B64Pad >>

(***************************************************************************)
(* Claims on the detail calls of the mailboxes request                     *)
(***************************************************************************)
\* The number of detail calls made so far for the campaign with this id.
DetailCallsFor(id) ==
    Cardinality({ k \in 1..Len(detail_calls) : detail_calls[k].id = id })

\* C32: in one mailboxes request that came to building its response, every
\* campaign of the full listing has had exactly one detail call.
C32_OneDetailCallEach ==
    mpc \in {"build", "done"} =>
        \A k \in 1..Len(every_campaign) :
            DetailCallsFor(every_campaign[k].id) = 1

(***************************************************************************)
(* Claims on the email a mailbox id is given by the campaigns              *)
(***************************************************************************)
\* The detail calls of the last walk of the full listing, one per campaign.
EmailWalkCalls ==
    SubSeq(detail_calls, Len(detail_calls) - Len(every_campaign) + 1,
           Len(detail_calls))

\* Where the last walk saw an email given to the mailbox id: the campaign's
\* position in the listing and the sender's position in its detail.
SeenFor(mid) ==
    { x \in (1..Len(every_campaign)) \X (1..2) :
        /\ EmailWalkCalls[x[1]].ok
        /\ x[2] <= Len(every_campaign[x[1]].senders)
        /\ every_campaign[x[1]].senders[x[2]].sendUserMailboxId = mid
        /\ HasAt(every_campaign[x[1]].senders[x[2]].email) }

\* The last of these in listing order.
LastSeenFor(mid) ==
    CHOOSE x \in SeenFor(mid) :
        \A y \in SeenFor(mid) : y[1] < x[1] \/ (y[1] = x[1] /\ y[2] <= x[2])

\* C31: once the full listing has been walked, mailbox_id_to_campaign_email
\* holds for each mailbox id the email of the last sender, in listing
\* order, that gave it one, and nothing for an id no sender named; in the
\* response that email stands for the mailbox in place of a stored email
\* that differs.
C31_LastWriteWins ==
    (mpc \in {"build", "done"} /\ every_campaign # << >>) =>
        /\ \A mid \in {"m1", "m2", "m3", "m4"} :
              IF SeenFor(mid) = {}
              THEN mid \notin DOMAIN mailbox_id_to_campaign_email
              ELSE /\ mid \in DOMAIN mailbox_id_to_campaign_email
                   /\ mailbox_id_to_campaign_email[mid] =
                         every_campaign[LastSeenFor(mid)[1]]
                             .senders[LastSeenFor(mid)[2]].email
        /\ mpc = "done" =>
              \A k \in 1..Len(all_mailboxes) :
                  (/\ all_mailboxes[k].id \in DOMAIN mailbox_id_to_campaign_email
                   /\ mailbox_id_to_campaign_email[all_mailboxes[k].id]
                         # all_mailboxes[k].email) =>
                      \E j \in 1..Len(mailbox_list) :
                          /\ mailbox_list[j].mailbox_id = all_mailboxes[k].id
                          /\ mailbox_list[j].email =
                                mailbox_id_to_campaign_email[all_mailboxes[k].id]

\* Campaign 1 gave mailbox m1 the email a@x and campaign 2, later in the
\* listing, b@x: the mailbox, stored as a@x, is answered as b@x.
C31_Witness ==
    /\ mpc = "done"
    /\ Len(every_campaign) = 2
    /\ EmailWalkCalls[1].ok
    /\ EmailWalkCalls[2].ok
    /\ every_campaign[1].senders = << Sender("a@x", "m1") >>
    /\ every_campaign[2].senders = << Sender("b@x", "m1") >>
    /\ mailbox_id_to_campaign_email["m1"] = "b@x"
    /\ \E j \in 1..Len(mailbox_list) :
          mailbox_list[j].mailbox_id = "m1" /\ mailbox_list[j].email = "b@x"

(***************************************************************************)
(* Claims on the emailsClicked feed                                        *)
(***************************************************************************)
\* What the emailsClicked feed may hold when the gather returns.
ClickedOutcomes ==
    { [pc |-> "done", page |-> p, acts |-> a, errors |-> e] :
        p \in 0..1, e \in BOOLEAN,
        a \in { << >>, << Activity("L1") >>, << Activity("L9"), Activity("L1") >> } }

\* The row a task returns is the row it would return with any other
\* emailsClicked feed in place of its own.
ClicksChangeNothing ==
    \A i \in 1..Len(task) :
        Gathers(i) =>
            \A other \in ClickedOutcomes :
                task'[i].row =
                    RowAfterFeeds(task[i].row, [feed[i] EXCEPT ![EmailsClicked] = other])

\* A campaign whose export and whose sent, opened and replied feeds were
\* answered from the snapshot has the row of the snapshot, whatever its
\* emailsClicked feed was answered.
SnapshotRowWhateverClicks ==
    \A i \in 1..Len(task) :
        (task[i].pc = "done" /\ task[i].clean) =>
            task[i].row = ExpectedRow(all_campaigns[i].id)

\* C33: the emailsClicked feed has no influence on the output: runs that
\* differ only in what the emailsClicked requests are answered give every
\* campaign the same row.
C33_ClicksNoInfluence == []SnapshotRowWhateverClicks /\ [][ClicksChangeNothing]_vars

\* The emailsClicked feed of campaign 1 failed while its other feeds ended
\* with all their activities; the gather is about to return.
C33_Witness ==
    /\ Len(task) = 3
    /\ task[1].pc = "feeds"
    /\ task[1].clean
    /\ feed[1][EmailsClicked].pc = "done"
    /\ feed[1][EmailsClicked].errors
    /\ \A t \in FeedTypes \ {EmailsClicked} :
          /\ feed[1][t].pc = "done"
          /\ ~feed[1][t].errors
          /\ feed[1][t].acts = ActivitiesOf(1, t)

(***************************************************************************)
(* Claims on the end of a fetch whose attempts are used up                 *)
(***************************************************************************)
\* The last answered request of the call came on the last permitted attempt.
OnFinalAttempt == Len(log) > 0 /\ log[Len(log)].att = max_retries - 1

\* C35: a 429 on the final attempt is still slept on, for the Retry-After
\* or backoff delay, and then the call returns None with no further
\* request; a 5xx, timeout or transport error on the final attempt raises
\* at once, with no sleep.
C35_TwoFormsOfExhaustion ==
    (fpc = "done" /\ OnFinalAttempt) =>
        /\ Is429(log[Len(log)].out) =>
              /\ log[Len(log)].act = "sleep"
              /\ log[Len(log)].slept >= RequiredDelay(log[Len(log)])
              /\ fresult = ReturnsNone
              /\ requests = max_retries
        /\ IsTransient(log[Len(log)].out) =>
              /\ log[Len(log)].act = "finish"
              /\ log[Len(log)].slept = 0
              /\ fresult.kind = "raise"
              /\ requests = max_retries

(***************************************************************************)
(* Claims on the order of the export and the feeds of a campaign           *)
(***************************************************************************)
\* A feed of the campaign at position i has a request out or behind it.
FeedsStarted(i) == \E t \in FeedTypes : feed[i][t].pc # "idle"

\* Feeds are at work only for a task that is past an export answered 200;
\* a task without id, waiting for its export, or dropped has none.
FeedsOnlyAfterExport ==
    \A i \in DOMAIN feed :
        /\ FeedsStarted(i) =>
              /\ task[i].pc = "feeds"
              /\ task[i].leads = "ok"
              /\ all_campaigns[i].id # 0
        /\ (all_campaigns[i].id = 0 \/ task[i].leads = "failed") =>
              /\ ~FeedsStarted(i)
              /\ task[i].pc \in {"new", "done"}
              /\ task[i].row = NoRow

\* The feeds of a campaign get their first requests in the step in which
\* its export returns, and in no other.
FeedsStartWithExport ==
    \A i \in DOMAIN feed :
        (i \in DOMAIN feed' /\ ~FeedsStarted(i) /\ feed'[i] # feed[i]) =>
            /\ task[i].pc = "leads"
            /\ task'[i].pc = "feeds"
            /\ task'[i].leads = "ok"

\* C36: no activity-feed request of a campaign is issued before its leads
\* export has returned successfully, and a campaign whose export failed, or
\* which has no id, issues none.
C36_FeedsAfterExport == []FeedsOnlyAfterExport /\ [][FeedsStartWithExport]_vars

\* The export of the first campaign failed and its feeds never started,
\* while the second campaign, past its export, has its sent feed fetched.
C36_Witness ==
    /\ Len(task) = 3
    /\ task[1].leads = "failed"
    /\ feed[1] = IdleFeeds
    /\ task[2].pc = "feeds"
    /\ task[2].leads = "ok"
    /\ feed[2][EmailsSent].pc = "done"
    /\ feed[2][EmailsOpened].pc = "fetch"

====
